---- MODULE Spec2Model ----
(***************************************************************************)
(* Bought-together analytics of the Bundle-Analytics repository.           *)
(*                                                                         *)
(* Three page components read the same dataset (public/data/orders.json):  *)
(*   "pairs"        src/app/pairs/page.js          pair metrics            *)
(*   "bundles"      src/app/page.jsx, lines 42-705  bundles keyed by the   *)
(*                                                  display name           *)
(*   "bundlesById"  src/app/page.jsx, lines 721-    bundles keyed by the   *)
(*                                                  product id             *)
(* A state is one mounted page: its React state (orders, loading, error,   *)
(* the controls) and the values of its useMemo computations.  Every action *)
(* is one handler together with the recomputation React performs after it. *)
(*                                                                         *)
(* Strings are modelled as sequences of tokens (words and punctuation);    *)
(* a regular expression or a case conversion is a table over the tokens.   *)
(***************************************************************************)
EXTENDS Integers, Sequences, FiniteSets, TLC

\* JavaScript null / undefined in a numeric field, and a date string that
\* new Date() cannot parse.
Absent == -1
BadDate == -2

\* Bounds of the model.
MaxOrders == 2
MaxLines == 2
\* the ids of the remote orders; the largest argument of the metric functions;
\* how far "Show more" is followed
MaxRemoteId == 2
MaxCount == 3
MaxVisible == 16
\* Most orders of a dataset the page is loaded with again after a reload.
MaxReloaded == 2
\* The sync route: the page size of the remote listing (PER_PAGE, scaled
\* down), the number of remote orders, the number of calls of POST.
PerPage == 2
RemoteCount == 5
MaxRuns == 2
\* MAX_RETRIES; a second in milliseconds; the default cut-off 2024-02-01
MaxRetries == 5
SecondMs == 1000
DefaultAfter == 0
\* useState defaults of the controls
DefaultMinCount == 2
DefaultTopN == 100
DefaultSize == 3
DefaultVisible == 8

\* for (let s = 1; s <= 7; s++)
MaxSize == 7
\* if (rec.sample.length < 6)
SampleCap == 6

\* Milliseconds of a day, and of T23:59:59Z within it.
DayMs == 86400000
EndOfDayMs == 86399000

----------------------------------------------------------------------------
(* Generic helpers on sequences.                                           *)

Range(s) == {s[i] : i \in 1..Len(s)}

Min2(a, b) == IF a < b THEN a ELSE b

RECURSIVE SeqsUpTo(_, _)
SeqsUpTo(S, n) ==
  IF n = 0 THEN {<<>>}
  ELSE LET shorter == SeqsUpTo(S, n - 1)
       IN  shorter \cup {Append(s, x) : s \in {t \in shorter : Len(t) = n - 1}, x \in S}

RECURSIVE Concat(_)
Concat(ss) == IF ss = <<>> THEN <<>> ELSE Head(ss) \o Concat(Tail(ss))

\* String.prototype.split(sep) on a string given as its tokens: the maximal
\* runs of tokens between separators
RECURSIVE SplitOn(_, _)
SplitOn(str, sep) ==
  IF \A i \in 1..Len(str) : str[i] # sep THEN <<str>>
  ELSE LET i == CHOOSE j \in 1..Len(str) :
                  str[j] = sep /\ \A h \in 1..(j - 1) : str[h] # sep
       IN  <<SubSeq(str, 1, i - 1)>> \o SplitOn(SubSeq(str, i + 1, Len(str)), sep)

\* Collation order of the tokens that occur in keys, display names and
\* product ids (the order both Array.prototype.sort and localeCompare give
\* to the strings of this model).
Alphabet ==
  << "0", "1", "2", "3", "4", "5", "6", "7", "8", "::", "(", ")",
     "Alpha", "Bar", "Beta", "Delta", "Echo", "Grape", "Gummies", "Gummies(", "Large", "Mango",
     "One", "Sour", "Two", "Unknown", "Unspecified", "Zeta",
     "consolidated", "gummies", "gummies-", "gummies-unspecified", "null" >>

TokRank(t) == CHOOSE i \in 1..Len(Alphabet) : Alphabet[i] = t

\* a < b for two token strings (lexicographic, a proper prefix first).
RECURSIVE StrLess(_, _)
StrLess(a, b) ==
  IF b = <<>> THEN FALSE
  ELSE IF a = <<>> THEN TRUE
  ELSE IF Head(a) = Head(b) THEN StrLess(Tail(a), Tail(b))
  ELSE TokRank(Head(a)) < TokRank(Head(b))

\* Array.prototype.sort on entries <<sort key, element>>: a stable insertion
\* sort by the key; SortBy returns the elements in sorted order.
RECURSIVE InsertSorted(_, _)
InsertSorted(x, s) ==
  IF s = <<>> THEN <<x>>
  ELSE IF StrLess(x[1], Head(s)[1]) THEN <<x>> \o s
  ELSE <<Head(s)>> \o InsertSorted(x, Tail(s))

RECURSIVE SortEntries(_)
SortEntries(s) ==
  IF s = <<>> THEN <<>>
  ELSE InsertSorted(s[Len(s)], SortEntries(SubSeq(s, 1, Len(s) - 1)))

SortBy(s, Key(_)) ==
  LET sorted == SortEntries([i \in 1..Len(s) |-> <<Key(s[i]), s[i]>>])
  IN  [i \in 1..Len(s) |-> sorted[i][2]]

\* A JavaScript Map: the sequence of its entries [k, v] in insertion order.
MapHas(m, k) == \E i \in 1..Len(m) : m[i].k = k
MapIndex(m, k) == CHOOSE i \in 1..Len(m) : m[i].k = k
MapGet(m, k, dflt) == IF MapHas(m, k) THEN m[MapIndex(m, k)].v ELSE dflt
MapSet(m, k, v) ==
  IF MapHas(m, k) THEN [m EXCEPT ![MapIndex(m, k)] = [k |-> k, v |-> v]]
  ELSE Append(m, [k |-> k, v |-> v])
MapKeys(m) == {m[i].k : i \in 1..Len(m)}

----------------------------------------------------------------------------
(* String tables.                                                          *)

\* String.prototype.toLowerCase on the tokens of the model.
toLowerCase(s) ==
  CASE s = "Completed" -> "completed"
    [] s = "COMPLETED" -> "completed"
    [] s = "Gummies" -> "gummies"
    [] s = "Mango" -> "mango"
    [] s = "Grape" -> "grape"
    [] s = "Sour" -> "sour"
    [] s = "Alpha" -> "alpha"
    [] s = "Bar" -> "bar"
    [] s = "Beta" -> "beta"
    [] s = "Zeta" -> "zeta"
    [] s = "One" -> "one"
    [] s = "Two" -> "two"
    [] s = "Large" -> "large"
    [] s = "Delta" -> "delta"
    [] s = "Echo" -> "echo"
    [] OTHER -> s

GUMMIES_FLAVORS == <<"grape", "mango", "watermelon", "blueberry", "lemon", "pineapple">>

capitalize(s) ==
  CASE s = "grape" -> "Grape"
    [] s = "mango" -> "Mango"
    [] s = "watermelon" -> "Watermelon"
    [] s = "blueberry" -> "Blueberry"
    [] s = "lemon" -> "Lemon"
    [] s = "pineapple" -> "Pineapple"
    [] OTHER -> s

\* String(n) of a small non-negative number; String(null) is "null".
NumStr(n) ==
  CASE n = 0 -> "0" [] n = 1 -> "1" [] n = 2 -> "2" [] n = 3 -> "3"
    [] n = 4 -> "4" [] n = 5 -> "5" [] n = 6 -> "6" [] n = 7 -> "7"
    [] n = 8 -> "8" [] OTHER -> "null"

\* /gummi/i.test(word); also GUMMIES_KEYWORDS.some(k => lower.includes(k)).
HasGummi(word) == toLowerCase(word) \in {"gummies", "gummi"}

\* GUMMIES_FLAVOR_REGEXES[f].test(text): \bf\b, case-insensitive, on a text
\* given as its sequence of words.
FlavorTest(f, text) == \E i \in 1..Len(text) : toLowerCase(text[i]) = f

----------------------------------------------------------------------------
(* Folds shared by the pages.                                              *)

\* m.set(k, (m.get(k) || 0) + 1)
MapInc(m, k) == MapSet(m, k, MapGet(m, k, 0) + 1)

RECURSIVE MapIncAll(_, _)
MapIncAll(m, ks) == IF ks = <<>> THEN m ELSE MapIncAll(MapInc(m, Head(ks)), Tail(ks))

\* DedupeEntries without the uniq.has(key) test: every element is kept.
DedupeEntriesKeepAll(es, seen) == [i \in 1..Len(es) |-> es[i][2]]

\* const uniq = new Map(); for (it of items) if (!uniq.has(key)) uniq.set(key, it)
\* on entries <<key, element>>: the first element of every key, in order.
RECURSIVE DedupeEntries(_, _)
DedupeEntries(es, seen) ==
  IF es = <<>> THEN <<>>
  ELSE IF Head(es)[1] \in seen THEN DedupeEntries(Tail(es), seen)
  ELSE <<Head(es)[2]>> \o DedupeEntries(Tail(es), seen \cup {Head(es)[1]})

DedupeBy(items, Key(_)) ==
  DedupeEntries([i \in 1..Len(items) |-> <<Key(items[i]), items[i]>>], {})

----------------------------------------------------------------------------
(* src/app/pairs/page.js                                                   *)

\* toDateSafe(s): the instant of a date string, or null (Absent).
toDateSafe(s) == IF s = Absent \/ s = BadDate THEN Absent ELSE s

\* Number(x ?? 0)
NumberOr0(x) == IF x = Absent THEN 0 ELSE x

\* order?.date_paid ?? order?.date_completed ?? order?.date_created ?? order?.date_created_gmt
dateVal(order) ==
  IF order.date_paid # Absent THEN order.date_paid
  ELSE IF order.date_completed # Absent THEN order.date_completed
  ELSE IF order.date_created # Absent THEN order.date_created
  ELSE order.date_created_gmt

\* fromDate ? new Date(`${fromDate}T00:00:00Z`).toISOString() : null
\* (a date control holds a day number, or Absent for the empty string)
fromIsoOf(fromDate) == IF fromDate = Absent THEN Absent ELSE fromDate * DayMs

\* toDate ? new Date(`${toDate}T23:59:59Z`).toISOString() : null
toIsoOf(toDate) == IF toDate = Absent THEN Absent ELSE toDate * DayMs + EndOfDayMs

\* isOrderEligible without the status test.
isOrderEligibleAnyStatus(order, fromIso, toIso) ==
  LET total == NumberOr0(order.total)
      refunded == NumberOr0(order.total_refunded)
      dt == toDateSafe(dateVal(order))
  IN  IF total = 0 \/ refunded >= total THEN FALSE
      ELSE IF dt = Absent THEN TRUE
      ELSE IF fromIso # Absent /\ dt < fromIso THEN FALSE
      ELSE IF toIso # Absent /\ dt > toIso THEN FALSE
      ELSE TRUE

isOrderEligible(order, fromIso, toIso) ==
  LET status == toLowerCase(order.status)
      total == NumberOr0(order.total)
      refunded == NumberOr0(order.total_refunded)
      dt == toDateSafe(dateVal(order))
  IN  IF status # "completed" THEN FALSE
      ELSE IF total = 0 \/ refunded >= total THEN FALSE
      ELSE IF dt = Absent THEN TRUE
      ELSE IF fromIso # Absent /\ dt < fromIso THEN FALSE
      ELSE IF toIso # Absent /\ dt > toIso THEN FALSE
      ELSE TRUE

\* Number(li?.total ?? li?.subtotal ?? 0)
lineTotal(li) ==
  IF li.total # Absent THEN li.total ELSE NumberOr0(li.subtotal)

\* if (qty <= 0) continue; if (lineTotal <= 0) continue;
PairLineSkipped(li) == NumberOr0(li.quantity) <= 0 \/ lineTotal(li) <= 0

\* GUMMIES_KEYWORDS.some(k => lower.includes(k))
PairLineIsGummies(li) == \E i \in 1..Len(li.name) : HasGummi(li.name[i])

\* PairKeyOfLine without the variation id.
PairKeyOfLineNoVariation(li) == <<NumStr(li.product_id), "::", "0">>

\* `${String(pid)}::${String(vid)}` with pid = product_id ?? null, vid = variation_id ?? 0
PairKeyOfLine(li) == <<NumStr(li.product_id), "::", NumStr(NumberOr0(li.variation_id))>>

\* words.slice(0, 2).join(" ") || name || `product-${pid}`
PairLabelOfLine(li) ==
  IF li.name # <<>> THEN SubSeq(li.name, 1, Min2(2, Len(li.name)))
  ELSE <<"product-", NumStr(li.product_id)>>

GummiesConsolidatedKey == <<"gummies", "::", "consolidated">>

\* the for loop of extractItemsForOrder: the pushed items, in order
RECURSIVE PairPushed(_)
PairPushed(raw) ==
  IF raw = <<>> THEN <<>>
  ELSE LET li == Head(raw)
       IN  IF PairLineSkipped(li) \/ PairLineIsGummies(li) THEN PairPushed(Tail(raw))
           ELSE <<[key |-> PairKeyOfLine(li), label |-> PairLabelOfLine(li)]>>
                \o PairPushed(Tail(raw))

\* sawGummiesLine after the loop
sawGummiesLine(raw) ==
  \E i \in 1..Len(raw) : ~PairLineSkipped(raw[i]) /\ PairLineIsGummies(raw[i])

ItemKey(it) == it.key

\* the consolidated Gummies item pushed after the loop if (sawGummiesLine)
PairGummiesPush(raw) ==
  IF sawGummiesLine(raw)
  THEN <<[key |-> GummiesConsolidatedKey, label |-> <<"Gummies">>]>>
  ELSE <<>>

extractItemsForOrder(order) ==
  DedupeBy(PairPushed(order.line_items) \o PairGummiesPush(order.line_items), ItemKey)

StrSelf(k) == k

\* keys[i], keys[j] for i < j, as `${a}||${b}`, in loop order
RECURSIVE PairKeysFrom(_)
PairKeysFrom(keys) ==
  IF Len(keys) < 2 THEN <<>>
  ELSE [j \in 1..(Len(keys) - 1) |-> Head(keys) \o <<"||">> \o keys[j + 1]]
       \o PairKeysFrom(Tail(keys))

\* items.map(it => it.key)
KeysOf(items) == [i \in 1..Len(items) |-> items[i].key]

\* The counting of one order on the counts c, given the keys of its items:
\* every key is counted once (the seenKeys guard), then every pair of the
\* sorted keys.
PairsCountKeys(c, keys) ==
  IF Len(keys) < 1 THEN c
  ELSE [c EXCEPT !.itemCounts = MapIncAll(@, DedupeBy(keys, StrSelf)),
                 !.pairCounts = MapIncAll(@, PairKeysFrom(SortBy(keys, StrSelf)))]

\* PairsCountOrder with seenKeys declared outside the loop over the orders: a
\* key is counted in the first order that has it only.
PairsCountOrderSeenOutside(c, ord) ==
  LET IsNew(k) == ~MapHas(c.itemCounts, k)
  IN  [c EXCEPT
         !.itemCounts = MapIncAll(@, SelectSeq(KeysOf(extractItemsForOrder(ord)), IsNew)),
         !.pairCounts = MapIncAll(@,
            PairKeysFrom(SortBy(KeysOf(extractItemsForOrder(ord)), StrSelf)))]

\* products.set(it.key, it.label) for every item of an order
RECURSIVE ProductsSetAll(_, _)
ProductsSetAll(products, items) ==
  IF items = <<>> THEN products
  ELSE ProductsSetAll(MapSet(products, Head(items).key, Head(items).label), Tail(items))

PairsLabelItems(c, items) == [c EXCEPT !.products = ProductsSetAll(@, items)]

\* The body of "for (const ord of eligible)" on the maps
\* c = [itemCounts, pairCounts, products, totalEligibleOrders].
PairsCountOrder(c, ord) ==
  PairsCountKeys(PairsLabelItems(c, extractItemsForOrder(ord)),
                 KeysOf(extractItemsForOrder(ord)))

RECURSIVE PairsCountAll(_, _)
PairsCountAll(c, list) ==
  IF list = <<>> THEN c ELSE PairsCountAll(PairsCountOrder(c, Head(list)), Tail(list))

EmptyPairs ==
  [itemCounts |-> <<>>, pairCounts |-> <<>>, products |-> <<>>, totalEligibleOrders |-> 0]

\* the counts with a total of the eligible orders that resolve to an item
PairsOfEligibleWithItems(eligible) ==
  LET HasItems(o) == extractItemsForOrder(o) # <<>>
  IN  PairsCountAll([itemCounts |-> <<>>, pairCounts |-> <<>>, products |-> <<>>,
                     totalEligibleOrders |-> Len(SelectSeq(eligible, HasItems))],
                    eligible)

\* The useMemo of pairs/page.js up to the counts and totalEligibleOrders.
\* the counts over the eligible orders, with totalEligibleOrders: eligible.length
PairsOfEligible(eligible) ==
  PairsCountAll([itemCounts |-> <<>>, pairCounts |-> <<>>, products |-> <<>>,
                 totalEligibleOrders |-> Len(eligible)], eligible)

ComputePairs(ords, fromDate, toDate) ==
  IF ~ords.isArray THEN EmptyPairs
  ELSE LET IsElig(o) == isOrderEligible(o, fromIsoOf(fromDate), toIsoOf(toDate))
       IN  PairsOfEligible(SelectSeq(ords.list, IsElig))

----------------------------------------------------------------------------
(* JavaScript numbers of the metrics: a finite number is the fraction n/d  *)
(* in lowest terms with d > 0; x/0 is NaN for x = 0 and Infinity else.      *)

RECURSIVE Gcd(_, _)
Gcd(a, b) == IF b = 0 THEN a ELSE Gcd(b, a % b)

NaN == [n |-> 0, d |-> 0]
Infinity == [n |-> 1, d |-> 0]

IsFinite(x) == x.d > 0

\* n/d for integers n >= 0, d >= 0, as the operator / gives it
Frac(n, d) ==
  IF d = 0 THEN (IF n = 0 THEN NaN ELSE Infinity)
  ELSE [n |-> n \div Gcd(n, d), d |-> d \div Gcd(n, d)]

Num(k) == [n |-> k, d |-> 1]

\* x * y and x / y of non-negative numbers
Mul(x, y) ==
  IF x = NaN \/ y = NaN THEN NaN
  ELSE IF ~IsFinite(x) \/ ~IsFinite(y)
       THEN (IF x.n = 0 \/ y.n = 0 THEN NaN ELSE Infinity)
  ELSE Frac(x.n * y.n, x.d * y.d)

Div(x, y) ==
  IF x = NaN \/ y = NaN THEN NaN
  ELSE IF ~IsFinite(x) THEN (IF IsFinite(y) THEN Infinity ELSE NaN)
  ELSE IF ~IsFinite(y) THEN Num(0)
  ELSE Frac(x.n * y.d, x.d * y.n)

\* x < y for finite numbers
NumLess(x, y) == x.n * y.d < y.n * x.d

\* Math.round(x) of a finite non-negative number: halves go up
MathRound(x) == (2 * x.n + x.d) \div (2 * x.d)

\* x.toFixed(digits) for digits = 3 and 4: x rounded to that many decimals, as
\* the count of its last decimal units
ToFixed(x, digits) ==
  MathRound(Mul(x, Num(IF digits = 3 THEN 1000 ELSE 10000)))

----------------------------------------------------------------------------
(* src/app/pairs/page.js: the pair list, the displayed pairs, the          *)
(* also-bought list and the exported rows.                                  *)

\* total > 0 ? (support / total) * 100 : 0
supportPctOf(support, total) ==
  IF total > 0 THEN Mul(Frac(support, total), Num(100)) ELSE Num(0)

\* the division without its "countA > 0 ?" test
confOfUnguarded(support, count) == Frac(support, count)

\* countA > 0 ? support / countA : 0
confOf(support, count) == IF count > 0 THEN Frac(support, count) ELSE Num(0)

\* (total > 0 && countA > 0 && countB > 0)
\*   ? (support / total) / ((countA / total) * (countB / total)) : 0
liftOf(support, countA, countB, total) ==
  IF total > 0 /\ countA > 0 /\ countB > 0
  THEN Div(Frac(support, total), Mul(Frac(countA, total), Frac(countB, total)))
  ELSE Num(0)

\* arr.push({ A, B, support, supportPct, countA, countB, confAtoB, confBtoA, lift })
PairMetrics(A, B, support, countA, countB, total) ==
  [A |-> A, B |-> B, support |-> support,
   supportPct |-> supportPctOf(support, total),
   countA |-> countA, countB |-> countB,
   confAtoB |-> confOf(support, countA),
   confBtoA |-> confOf(support, countB),
   lift |-> liftOf(support, countA, countB, total)]

\* the pair with the singleton count of B read for A and that of A for B
PairFromPartsCountsCrossed(parts, cnt, counts, total) ==
  PairMetrics(parts[1], parts[2], cnt,
              MapGet(counts, parts[2], 0), MapGet(counts, parts[1], 0), total)

\* const [A, B] = pairKey.split("||"); itemCounts.get(A) || 0 ...
PairFromParts(parts, cnt, counts, total) ==
  PairMetrics(parts[1], parts[2], cnt,
              MapGet(counts, parts[1], 0), MapGet(counts, parts[2], 0), total)

\* the pushes of the loop over the entries that pass the minCount test
PairsOfEntries(kept, counts, total) ==
  [i \in 1..Len(kept) |->
     PairFromParts(SplitOn(kept[i].k, "||"), kept[i].v, counts, total)]

\* the loop with "if (cnt <= minCount) continue"
BuildPairsAbove(entries, counts, total, min) ==
  LET Above(e) == e.v > min
  IN  PairsOfEntries(SelectSeq(entries, Above), counts, total)

\* the loop over pairCounts.entries(): "if (cnt < minCount) continue"
BuildPairs(entries, counts, total, min) ==
  LET Kept(e) == ~(e.v < min)
  IN  PairsOfEntries(SelectSeq(entries, Kept), counts, total)

\* the number the comparator of arr.sort reads
MetricOf(p, by) ==
  CASE by = "lift" -> p.lift
    [] by = "confAtoB" -> p.confAtoB
    [] by = "supportPct" -> p.supportPct
    [] OTHER -> Num(p.support)

\* the insertion of a sort that puts the later of two equal pairs first
RECURSIVE InsertByMetricBeforeEqual(_, _, _)
InsertByMetricBeforeEqual(x, s, by) ==
  IF s = <<>> THEN <<x>>
  ELSE IF ~NumLess(MetricOf(x, by), MetricOf(Head(s), by)) THEN <<x>> \o s
  ELSE <<Head(s)>> \o InsertByMetricBeforeEqual(x, Tail(s), by)

\* arr.sort((x, y) => y.m - x.m): stable, non-increasing in the metric
RECURSIVE InsertByMetric(_, _, _)
InsertByMetric(x, s, by) ==
  IF s = <<>> THEN <<x>>
  ELSE IF NumLess(MetricOf(Head(s), by), MetricOf(x, by)) THEN <<x>> \o s
  ELSE <<Head(s)>> \o InsertByMetric(x, Tail(s), by)

RECURSIVE SortByMetricDesc(_, _)
SortByMetricDesc(s, by) ==
  IF s = <<>> THEN <<>>
  ELSE InsertByMetric(s[Len(s)], SortByMetricDesc(SubSeq(s, 1, Len(s) - 1), by), by)

\* the pairs of the useMemo, from the counts c of ComputePairs
PairsList(c, min, by) ==
  SortByMetricDesc(BuildPairs(c.pairCounts, c.itemCounts, c.totalEligibleOrders, min), by)

\* productsByKey[key] || key
labelFor(products, key) ==
  IF MapGet(products, key, <<>>) # <<>> THEN MapGet(products, key, <<>>) ELSE key

\* String.prototype.trim on the texts typed into the search box
trim(text) == IF text = " Beta " THEN "Beta" ELSE text

\* label.toLowerCase().includes(q), for a q that is one word
Includes(label, q) == \E i \in 1..Len(label) : toLowerCase(label[i]) = q

\* arr.slice(0, n): a negative n counts from the end
Slice0(arr, n) ==
  IF n >= 0 THEN SubSeq(arr, 1, Min2(n, Len(arr)))
  ELSE SubSeq(arr, 1, IF Len(arr) + n > 0 THEN Len(arr) + n ELSE 0)

\* the filter of displayedPairs for a lower-cased, trimmed q
PairsMatching(list, products, q) ==
  LET Hit(p) == \/ Includes(labelFor(products, p.A), q)
                \/ Includes(labelFor(products, p.B), q)
  IN  IF q = "" THEN list ELSE SelectSeq(list, Hit)

\* the useMemo displayedPairs
displayedPairsOf(list, products, text, n) ==
  Slice0(PairsMatching(list, products, toLowerCase(trim(text))), n)

\* the entry with the confidence in place of the lift on the side of B
AlsoBoughtEntryLiftOfSide(p, key) ==
  IF p.A = key
  THEN [productKey |-> p.B, support |-> p.support, conf |-> p.confAtoB, lift |-> p.lift]
  ELSE [productKey |-> p.A, support |-> p.support, conf |-> p.confBtoA, lift |-> p.confBtoA]

\* the entry of alsoBought a pair gives for the selected key
AlsoBoughtEntry(p, key) ==
  IF p.A = key
  THEN [productKey |-> p.B, support |-> p.support, conf |-> p.confAtoB, lift |-> p.lift]
  ELSE [productKey |-> p.A, support |-> p.support, conf |-> p.confBtoA, lift |-> p.lift]

\* list.sort((a, b) => b.support - a.support)
RECURSIVE InsertBySupport(_, _)
InsertBySupport(x, s) ==
  IF s = <<>> THEN <<x>>
  ELSE IF x.support > Head(s).support THEN <<x>> \o s
  ELSE <<Head(s)>> \o InsertBySupport(x, Tail(s))

RECURSIVE SortBySupportDesc(_)
SortBySupportDesc(s) ==
  IF s = <<>> THEN <<>>
  ELSE InsertBySupport(s[Len(s)], SortBySupportDesc(SubSeq(s, 1, Len(s) - 1)))

\* the pushes of the loop over the pairs that have the selected key
AlsoBoughtEntries(having, key) ==
  [i \in 1..Len(having) |-> AlsoBoughtEntry(having[i], key)]

\* the useMemo alsoBought
alsoBoughtOf(list, key) ==
  LET Has(p) == p.A = key \/ p.B = key
  IN  IF key = <<>> THEN <<>>
      ELSE SortBySupportDesc(AlsoBoughtEntries(SelectSeq(list, Has), key))

\* one row of downloadCSV
CsvRow(p, products) ==
  [A_key |-> p.A, A_label |-> labelFor(products, p.A),
   B_key |-> p.B, B_label |-> labelFor(products, p.B),
   support |-> p.support, countA |-> p.countA, countB |-> p.countB,
   confAtoB |-> ToFixed(p.confAtoB, 4), confBtoA |-> ToFixed(p.confBtoA, 4),
   lift |-> ToFixed(p.lift, 4), supportPct |-> ToFixed(p.supportPct, 3)]

\* the rows pushed for the pairs of "for (const p of ...)"
CsvRowsOf(top, products) == [i \in 1..Len(top) |-> CsvRow(top[i], products)]

\* the rows downloadCSV writes after the header: pairs.slice(0, topN)
CsvRows(list, products, n) == CsvRowsOf(Slice0(list, n), products)

----------------------------------------------------------------------------
(* src/app/page.jsx: the two bundle pages.  byId = FALSE is the first      *)
(* component (keys are display names), byId = TRUE the second (keys are     *)
(* product ids); the two differ in the lines the parameter selects.         *)

\* normalizeProductName(rawName), rawName given as its words
normalizeProductName(rawName) ==
  IF rawName = <<>> THEN [product |-> <<"Unknown">>, variant |-> <<>>]
  ELSE IF \E i \in 1..Len(rawName) : HasGummi(rawName[i])
       THEN [product |-> <<"Gummies">>, variant |-> <<>>]
  ELSE [product |-> SubSeq(rawName, 1, Min2(2, Len(rawName))),
        variant |-> SubSeq(rawName, 3, Len(rawName))]

\* metaValues: String(m.value) of every entry of li.meta_data (a value is the
\* sequence of its comma-separated parts, each one word)
metaValuesOf(li) == [i \in 1..Len(li.meta_data) |-> li.meta_data[i].value]

\* set.add(x) for every x of xs, on a Set kept as its insertion sequence
RECURSIVE AddAll(_, _)
AddAll(set, xs) ==
  IF xs = <<>> THEN set
  ELSE AddAll(IF Head(xs) \in Range(set) THEN set ELSE Append(set, Head(xs)), Tail(xs))

\* for (const f of GUMMIES_FLAVORS) if (re.test(text)) add(capitalize(f))
DetectedIn(text) ==
  LET Hit(f) == FlavorTest(f, text)
      hits == SelectSeq(GUMMIES_FLAVORS, Hit)
  IN  [i \in 1..Len(hits) |-> capitalize(hits[i])]

\* the fallback loop over the parts of one meta value
RECURSIVE FallbackParts(_)
FallbackParts(parts) ==
  IF parts = <<>> THEN <<>>
  ELSE LET p == Head(parts)
           found == DetectedIn(<<p>>)
       IN  (IF found # <<>> THEN found ELSE <<p>>) \o FallbackParts(Tail(parts))

\* /flavor|flavour|size|color|variant|attribute/i.test(String(m?.key || ""))
IsVariantKey(key) == key \in {"pa_flavor", "pa_size"}

\* li.meta_data.find(...) ; String(meta.value || "")
metaVariantOf(li) ==
  LET Hit(m) == IsVariantKey(m.key)
      hits == SelectSeq(li.meta_data, Hit)
  IN  IF hits = <<>> THEN <<>> ELSE hits[1].value

ExplodedItem(fv) ==
  [productId |-> <<"gummies-", fv>>, displayName |-> <<"Gummies(", fv, ")">>,
   variantName |-> <<>>, hasFlavors |-> FALSE, flavors |-> <<>>]

UnspecifiedItem ==
  [productId |-> <<"gummies-unspecified">>, displayName |-> <<"Gummies(", "Unspecified", ")">>,
   variantName |-> <<>>, hasFlavors |-> FALSE, flavors |-> <<>>]

ConsolidatedItem(flavors) ==
  [productId |-> <<"gummies">>, displayName |-> <<"Gummies">>,
   variantName |-> <<>>, hasFlavors |-> TRUE, flavors |-> flavors]

\* the flavors a Gummies line adds to gummiesFlavorsSet, given the set so far
\* if (gummiesFlavorsSet.size === 0 && metaValues.length > 0) { fallback }
FlavorsWithFallback(set, mvs) ==
  IF set = <<>> /\ Len(mvs) > 0
  THEN AddAll(set, Concat([i \in 1..Len(mvs) |-> FallbackParts(mvs[i])]))
  ELSE set

\* the regex scan of the meta values
DetectedInMeta(mvs) == Concat([i \in 1..Len(mvs) |-> DetectedIn(mvs[i])])

GummiesFlavorsAfter(set, li) ==
  FlavorsWithFallback(
    AddAll(AddAll(set, DetectedIn(li.name)), DetectedInMeta(metaValuesOf(li))),
    metaValuesOf(li))

\* if (explodeGummies) { ... nonGummies.push(...) }
ExplodePushes(flavorsSet, explode) ==
  IF ~explode THEN <<>>
  ELSE IF Len(flavorsSet) > 0 THEN [i \in 1..Len(flavorsSet) |-> ExplodedItem(flavorsSet[i])]
  ELSE <<UnspecifiedItem>>

\* One iteration of "for (const li of raw)" on
\* st = [nonGummies, gummiesFlavorsSet, sawAnyGummiesLine].
\* the state after a Gummies line that left gummiesFlavorsSet as fl
GummiesLineDone(st, fl, explode) ==
  [nonGummies |-> st.nonGummies \o ExplodePushes(fl, explode),
   gummiesFlavorsSet |-> fl,
   sawAnyGummiesLine |-> TRUE]

\* nonGummies.push({ productId, displayName, variantName, ... })
PlainItem(li, norm, metaVariant) ==
  [productId |-> <<NumStr(li.product_id)>>,
   displayName |-> norm.product,
   variantName |-> IF metaVariant # <<>> THEN metaVariant ELSE norm.variant,
   hasFlavors |-> FALSE, flavors |-> <<>>]

LineStep(st, li, explode) ==
  IF normalizeProductName(li.name).product = <<"Gummies">>
  THEN GummiesLineDone(st, GummiesFlavorsAfter(st.gummiesFlavorsSet, li), explode)
  ELSE [st EXCEPT !.nonGummies =
          Append(@, PlainItem(li, normalizeProductName(li.name), metaVariantOf(li)))]

RECURSIVE LineLoop(_, _, _)
LineLoop(st, raw, explode) ==
  IF raw = <<>> THEN st ELSE LineLoop(LineStep(st, Head(raw), explode), Tail(raw), explode)

\* the key of the per-order dedupe: displayName (first page), productId (second)
DedupeKey(it, byId) == IF byId THEN it.productId ELSE it.displayName

\* the "seen" loop of the consolidated branch: keep the first item of a key and
\* merge the flavors of a later Gummies duplicate into it
RECURSIVE SeenLoop(_, _, _)
SeenLoop(seen, items, byId) ==
  IF items = <<>> THEN seen
  ELSE LET it == Head(items)
           dup == {i \in 1..Len(seen) : DedupeKey(seen[i], byId) = DedupeKey(it, byId)}
       IN  IF dup = {} THEN SeenLoop(Append(seen, it), Tail(items), byId)
           ELSE LET i == CHOOSE j \in dup : TRUE
                    isGummies == IF byId THEN seen[i].productId = <<"gummies">>
                                 ELSE seen[i].displayName = <<"Gummies">>
                IN  IF isGummies /\ seen[i].hasFlavors /\ it.hasFlavors
                    THEN SeenLoop([seen EXCEPT ![i].flavors = AddAll(@, it.flavors)],
                                  Tail(items), byId)
                    ELSE SeenLoop(seen, Tail(items), byId)

\* the items of the consolidated branch before the dedupe
ConsolidatedItems(st) ==
  IF Len(st.gummiesFlavorsSet) > 0
  THEN Append(st.nonGummies, ConsolidatedItem(st.gummiesFlavorsSet))
  ELSE IF st.sawAnyGummiesLine
  THEN Append(st.nonGummies, ConsolidatedItem(<<"Unspecified">>))
  ELSE st.nonGummies

\* what extractLineItems returns, given the state st the loop over the lines left
ItemsAfterLoop(st, explode, byId) ==
  LET KeyOf(it) == DedupeKey(it, byId)
  IN  IF ~explode THEN SeenLoop(<<>>, ConsolidatedItems(st), byId)
      ELSE DedupeBy(st.nonGummies, KeyOf)

extractLineItems(order, explode, byId) ==
  ItemsAfterLoop(LineLoop([nonGummies |-> <<>>, gummiesFlavorsSet |-> <<>>,
                           sawAnyGummiesLine |-> FALSE], order.line_items, explode),
                 explode, byId)

\* an enumeration of the runs of k neighbouring elements alone
combinationsAdjacent(arr, k) ==
  IF k > Len(arr) THEN <<>>
  ELSE [i \in 1..(Len(arr) - k + 1) |-> SubSeq(arr, i, i + k - 1)]

\* combinations(arr, k): the k-element subsequences, in the order bt() pushes them
RECURSIVE combinations(_, _)
combinations(arr, k) ==
  IF k = 0 THEN << <<>> >>
  ELSE IF k > Len(arr) THEN <<>>
  ELSE LET withHead == combinations(Tail(arr), k - 1)
       IN  [i \in 1..Len(withHead) |-> <<Head(arr)>> \o withHead[i]]
           \o combinations(Tail(arr), k)

\* parts.join(" | ")
RECURSIVE JoinBar(_)
JoinBar(parts) ==
  IF parts = <<>> THEN <<>>
  ELSE IF Len(parts) = 1 THEN parts[1]
  ELSE parts[1] \o <<" | ">> \o JoinBar(Tail(parts))

RECURSIVE JoinComma(_)
JoinComma(parts) ==
  IF parts = <<>> THEN <<>>
  ELSE IF Len(parts) = 1 THEN <<parts[1]>>
  ELSE <<parts[1], ",">> \o JoinComma(Tail(parts))

Word(w) == <<w>>

variantPartString(it) ==
  IF it.displayName = <<"Gummies">>
  THEN IF ~it.hasFlavors \/ it.flavors = <<>> THEN <<"Gummies(", "Unspecified", ")">>
       ELSE <<"Gummies(">> \o JoinComma(SortBy(it.flavors, Word)) \o <<")">>
  ELSE IF it.variantName # <<>> THEN it.displayName \o <<"(">> \o it.variantName \o <<")">>
  ELSE it.displayName

\* a first page that accepts the status "completed" alone
BundleStatusOkCompletedFirst(order, byId) ==
  LET st == toLowerCase(order.status)
  IN  st = "completed" \/ (byId /\ (st = "processing" \/ st = "paid"))

\* st === "completed" || st === "processing" (|| st === "paid" on the second page)
BundleStatusOk(order, byId) ==
  LET st == toLowerCase(order.status)
  IN  st = "completed" \/ st = "processing" \/ (byId /\ st = "paid")

\* order?.date_created ?? order?.date_created_gmt ?? order?.date_modified ?? null
sampleDate(order) ==
  IF order.date_created # Absent THEN order.date_created
  ELSE IF order.date_created_gmt # Absent THEN order.date_created_gmt
  ELSE order.date_modified

\* a body that keeps the latest six contributing orders as the sample
CombStepLatestSample(map, comb, order, byId) ==
  LET bundleKey == IF byId THEN JoinBar([i \in 1..Len(comb) |-> comb[i].productId])
                   ELSE JoinBar([i \in 1..Len(comb) |-> comb[i].displayName])
      variantKey == JoinBar([i \in 1..Len(comb) |-> variantPartString(comb[i])])
      fresh == [count |-> 0, variants |-> <<>>, sample |-> <<>>, label |-> variantKey]
      rec == MapGet(map, bundleKey, fresh)
  IN  MapSet(map, bundleKey,
        [count |-> rec.count + 1,
         variants |-> MapInc(rec.variants, variantKey),
         sample |-> IF Len(rec.sample) < SampleCap
                    THEN Append(rec.sample, [id |-> order.id, date |-> sampleDate(order)])
                    ELSE Append(Tail(rec.sample),
                                [id |-> order.id, date |-> sampleDate(order)]),
         label |-> rec.label])

\* a body that notes a variant key once, without counting it
CombStepVariantsNoted(map, comb, order, byId) ==
  LET bundleKey == IF byId THEN JoinBar([i \in 1..Len(comb) |-> comb[i].productId])
                   ELSE JoinBar([i \in 1..Len(comb) |-> comb[i].displayName])
      variantKey == JoinBar([i \in 1..Len(comb) |-> variantPartString(comb[i])])
      fresh == [count |-> 0, variants |-> <<>>, sample |-> <<>>, label |-> variantKey]
      rec == MapGet(map, bundleKey, fresh)
  IN  MapSet(map, bundleKey,
        [count |-> rec.count + 1,
         variants |-> MapSet(rec.variants, variantKey, 1),
         sample |-> IF Len(rec.sample) < SampleCap
                    THEN Append(rec.sample, [id |-> order.id, date |-> sampleDate(order)])
                    ELSE rec.sample,
         label |-> rec.label])

\* the body of "for (const comb of combs)" on the Map of one size
CombStep(map, comb, order, byId) ==
  LET bundleKey == IF byId THEN JoinBar([i \in 1..Len(comb) |-> comb[i].productId])
                   ELSE JoinBar([i \in 1..Len(comb) |-> comb[i].displayName])
      variantKey == JoinBar([i \in 1..Len(comb) |-> variantPartString(comb[i])])
      fresh == [count |-> 0, variants |-> <<>>, sample |-> <<>>, label |-> variantKey]
      rec == MapGet(map, bundleKey, fresh)
  IN  MapSet(map, bundleKey,
        [count |-> rec.count + 1,
         variants |-> MapInc(rec.variants, variantKey),
         sample |-> IF Len(rec.sample) < SampleCap
                    THEN Append(rec.sample, [id |-> order.id, date |-> sampleDate(order)])
                    ELSE rec.sample,
         label |-> rec.label])

RECURSIVE CombLoop(_, _, _, _)
CombLoop(map, combs, order, byId) ==
  IF combs = <<>> THEN map
  ELSE LET next == CombStep(map, Head(combs), order, byId)
       IN  \* a Map after a step has an entry; the test has next evaluated here
           IF Len(next) = 0 THEN next
           ELSE CombLoop(next, Tail(combs), order, byId)

\* the body of "for (const order of orders)" on maps[1..7]
\* the loop over the sizes 1..7 for one order with its sorted items
BundleSizes(maps, items, order, byId) ==
  IF Len(items) < 1 THEN maps
  ELSE [s \in 1..MaxSize |->
          IF Len(items) < s THEN maps[s]
          ELSE CombLoop(maps[s], combinations(items, s), order, byId)]

BundleOrderStep(maps, order, explode, byId) ==
  LET KeyOf(it) == DedupeKey(it, byId)
  IN  IF ~BundleStatusOk(order, byId) THEN maps
      ELSE BundleSizes(maps, SortBy(extractLineItems(order, explode, byId), KeyOf),
                       order, byId)

RECURSIVE BundleOrderLoop(_, _, _, _)
BundleOrderLoop(maps, list, explode, byId) ==
  IF list = <<>> THEN maps
  ELSE BundleOrderLoop(BundleOrderStep(maps, Head(list), explode, byId),
                       Tail(list), explode, byId)

\* .sort((a, b) => b.count - a.count): stable, so the records of the highest
\* count come first, then those of the next count, each group in the order it
\* had before the sort
CountsIn(s) == {s[i].count : i \in 1..Len(s)}

SortByCountDesc(s) ==
  IF s = <<>> THEN <<>>
  ELSE LET top == CHOOSE c \in CountsIn(s) : \A d \in CountsIn(s) : d <= c
           low == CHOOSE c \in CountsIn(s) : \A d \in CountsIn(s) : c <= d
           Group(k) == LET Has(r) == r.count = top - k + 1 IN SelectSeq(s, Has)
       IN  Concat([k \in 1..(top - low + 1) |-> Group(k)])

\* out[s]: the entries of maps[s] as records, sorted
BundleOut(map, byId) ==
  SortByCountDesc([i \in 1..Len(map) |->
    [bundle |-> IF byId THEN map[i].v.label ELSE map[i].k,
     idKey |-> map[i].k,
     count |-> map[i].v.count,
     variants |-> map[i].v.variants,
     sample |-> map[i].v.sample]])

\* the useMemo bundlesBySize
\* out = {}; for (let s = 1; s <= 7; s++) out[s] = ...
BundleOutAll(maps, byId) == [s \in 1..MaxSize |-> BundleOut(maps[s], byId)]

ComputeBundles(ords, explode, byId) ==
  IF ~ords.isArray THEN [s \in 1..MaxSize |-> <<>>]
  ELSE BundleOutAll(BundleOrderLoop([s \in 1..MaxSize |-> <<>>], ords.list, explode, byId),
                    byId)

\* a total that counts the orders of status "completed" alone
BundleTotalCompleted(ords, byId) ==
  IF ~ords.isArray THEN 0
  ELSE Cardinality({i \in 1..Len(ords.list) : toLowerCase(ords.list[i].status) = "completed"})

\* the useMemo totalEligibleOrders of the bundle pages
BundleTotalEligible(ords, byId) ==
  IF ~ords.isArray THEN 0
  ELSE Cardinality({i \in 1..Len(ords.list) : BundleStatusOk(ords.list[i], byId)})

\* sizesToShow: s = Number(selectedSize) || 1, up to 7 with showRangeToEnd
sizesToShowOf(size, toEnd) ==
  IF toEnd THEN [i \in 1..(MaxSize - size + 1) |-> size + i - 1] ELSE <<size>>

\* arr.filter((b) => !query || b.bundle.toLowerCase().includes(query.toLowerCase()))
BundlesMatching(arr, text) ==
  LET Hit(b) == Includes(b.bundle, toLowerCase(text))
  IN  IF text = "" THEN arr ELSE SelectSeq(arr, Hit)

\* one section of the page: the cards filtered.slice(0, visiblePerSection) and
\* whether "Show more" is offered
SectionOf(size, filtered, visible) ==
  [size |-> size, cards |-> Slice0(filtered, visible), more |-> visible < Len(filtered)]

\* sizesToShow.map((size) => ...) of the render
sectionsOf(bundles, sizes, text, visible) ==
  [i \in 1..Len(sizes) |->
     SectionOf(sizes[i], BundlesMatching(bundles[sizes[i]], text), visible)]

\* percentOf(total, value): "if (!total || total === 0) return 0"
percentOf(total, value) ==
  IF total = Absent \/ total = 0 THEN 0
  ELSE MathRound(Mul(Frac(value, total), Num(100)))

----------------------------------------------------------------------------
(* src/unnamed/part_000 (app/api/sync-orders/route.js): what the sync       *)
(* writes to orders.json.                                                   *)

\* li.meta_data.map((m) => ({ key: String(m.key || ""), value: m.value ?? null }))
simplifyMeta(m) == [key |-> m.key, value |-> m.value]

simplifyLineItem(li) ==
  [product_id |-> li.product_id, variation_id |-> li.variation_id, name |-> li.name,
   quantity |-> li.quantity, subtotal |-> li.subtotal, total |-> li.total,
   meta_data |-> [i \in 1..Len(li.meta_data) |-> simplifyMeta(li.meta_data[i])]]

\* simplifyOrder(o), on the fields the pages read.  The object it returns has
\* no total_refunded, date_paid or date_completed: a page reads them as
\* undefined.
simplifyOrder(o) ==
  [id |-> o.id, status |-> o.status,
   date_created |-> o.date_created, date_created_gmt |-> o.date_created_gmt,
   date_modified |-> o.date_modified, total |-> o.total,
   total_refunded |-> Absent, date_paid |-> Absent, date_completed |-> Absent,
   line_items |-> [i \in 1..Len(o.line_items) |-> simplifyLineItem(o.line_items[i])]]

\* existingMap.set(String(rawOrder.id), simplifyOrder(rawOrder))
PersistOrder(map, raw) == MapSet(map, NumStr(raw.id), simplifyOrder(raw))

----------------------------------------------------------------------------
(* The datasets the pages are run on.                                      *)

Line(pid, vid, name, qty, total, meta) ==
  [product_id |-> pid, variation_id |-> vid, name |-> name, quantity |-> qty,
   total |-> total, subtotal |-> total, meta_data |-> meta]

LineA == Line(1, Absent, <<"Alpha", "Bar", "One">>, 1, 5, <<>>)
\* another product with the same first two words
LineA2 == Line(2, 0, <<"Alpha", "Bar", "Two">>, 1, 5, <<>>)
\* another variation of product 1
LineAv == Line(1, 7, <<"Alpha", "Bar", "One">>, 2, 5, <<>>)
LineB == Line(3, Absent, <<"Beta">>, 1, 5, <<[key |-> "pa_size", value |-> <<"Large">>]>>)
\* zero quantity; zero value (total absent, subtotal 0)
LineZq == Line(4, Absent, <<"Zeta">>, 0, 5, <<>>)
LineZt == [Line(4, Absent, <<"Zeta">>, 1, Absent, <<>>) EXCEPT !.subtotal = 0]
\* gummies: no flavor; flavor in the name; free text in the metadata; flavor in
\* the metadata; zero quantity
LineG0 == Line(5, Absent, <<"Gummies">>, 1, 5, <<>>)
LineGM == Line(5, 1, <<"Mango", "Gummies">>, 1, 5, <<>>)
LineGs == Line(5, 2, <<"Gummies">>, 1, 5, <<[key |-> "pa_flavor", value |-> <<"Sour">>]>>)
LineGg == Line(5, 3, <<"gummies">>, 1, 5, <<[key |-> "pa_flavor", value |-> <<"grape">>]>>)
LineGz == Line(5, Absent, <<"Grape", "Gummies">>, 0, 5, <<>>)

LinePool == {LineA, LineA2, LineAv, LineB, LineZq, LineZt,
             LineG0, LineGM, LineGs, LineGg, LineGz}

Order(status, total, refunded, paid, completed, created, lines) ==
  [id |-> 0, status |-> status, total |-> total, total_refunded |-> refunded,
   date_paid |-> paid, date_completed |-> completed, date_created |-> created,
   date_created_gmt |-> Absent, date_modified |-> Absent, line_items |-> lines]

PlainOrder(lines) == Order("completed", 10, 0, Absent, Absent, Absent, lines)

\* day 1 is the day the date controls can select
LastMsOfDay0 == DayMs - 1
StartOfDay1 == DayMs
LastSecondOfDay1 == DayMs + EndOfDayMs
InLastSecondOfDay1 == LastSecondOfDay1 + 500
DayPool == {Absent, 1}

\* any order of up to MaxLines lines of the pool, with an eligible header
RichOrders == {PlainOrder(ls) : ls \in SeqsUpTo(LinePool, MaxLines)}

\* the orders multi-order datasets are made of: they vary the status, the
\* amounts, the dates and the items
CoreOrders ==
  { Order("Completed", 10, 0, Absent, Absent, Absent, <<LineA, LineB>>),
    Order("processing", 10, 0, Absent, Absent, Absent, <<LineA, LineB>>),
    Order("paid", 10, 0, Absent, Absent, Absent, <<LineA>>),
    Order("pending", 10, 0, Absent, Absent, Absent, <<LineA, LineB>>),
    Order("completed", 0, 0, Absent, Absent, Absent, <<LineA, LineB>>),
    Order("completed", 10, 10, Absent, Absent, Absent, <<LineA, LineB>>),
    Order("completed", 10, 3, Absent, Absent, Absent, <<LineB>>),
    Order("completed", 10, 0, InLastSecondOfDay1, Absent, Absent, <<LineA, LineB>>),
    Order("completed", 10, 0, LastMsOfDay0, Absent, Absent, <<LineA, LineB>>),
    Order("completed", 10, 0, Absent, StartOfDay1, Absent, <<LineA, LineB>>),
    Order("completed", 10, 0, Absent, Absent, LastSecondOfDay1, <<LineB>>),
    Order("completed", 10, 0, BadDate, StartOfDay1, Absent, <<LineA>>),
    PlainOrder(<<LineA>>),
    PlainOrder(<<LineA, LineB>>),
    PlainOrder(<<LineB, LineA, LineGM>>),
    PlainOrder(<<LineA2, LineGM>>) }

\* orders.json: the orders in file order, their ids the positions
WithIds(list) == [i \in 1..Len(list) |-> [list[i] EXCEPT !.id = i]]

Datasets ==
  {WithIds(<<o>>) : o \in RichOrders \cup CoreOrders}
  \cup {WithIds(s) : s \in SeqsUpTo(CoreOrders, MaxOrders)}

\* two more products, for orders large enough to fill a section of the page
LineD == Line(6, Absent, <<"Delta">>, 1, 5, <<>>)
LineE == Line(8, Absent, <<"Echo">>, 1, 5, <<>>)

\* the orders the result lists are studied on: X and Y together, X alone, five
\* products together; an eligible order that resolves to no item on the pairs
\* page, and two of the five again
OrderXY == PlainOrder(<<LineA, LineB>>)
OrderX == PlainOrder(<<LineA>>)
OrderFive == PlainOrder(<<LineB, LineA, LineD, LineE, LineGM>>)
OrderNoItem == PlainOrder(<<LineZq>>)
OrderDB == PlainOrder(<<LineD, LineB>>)

ResultOrders == {OrderXY, OrderX, OrderFive}

ResultDatasets ==
  {WithIds(s) : s \in SeqsUpTo(ResultOrders, MaxOrders)}
  \cup {WithIds(<<OrderFive, OrderDB>>), WithIds(<<OrderDB, OrderXY>>),
        WithIds(<<OrderXY, OrderNoItem>>), WithIds(<<OrderNoItem, OrderFive>>)}

\* the orders the remote shop answers with: their ids are 1..MaxRemoteId
RemoteOrders == {[o EXCEPT !.id = i] : o \in CoreOrders, i \in 1..MaxRemoteId}

\* the arguments the metric functions are applied to
MetricInputs ==
  [support : 0..MaxCount, countA : 0..MaxCount, countB : 0..MaxCount, total : 0..MaxCount]

----------------------------------------------------------------------------
(* The state machine.                                                      *)

VARIABLES page, orders, loading, error, fromDate, toDate, explodeGummies,
          itemCounts, pairCounts, totalEligibleOrders, bundlesBySize,
          minCount, topN, query, sortBy, selectedProductKey,
          selectedSize, showRangeToEnd, visiblePerSection,
          products, pairs, displayedPairs, alsoBought, sections, exported,
          rawOrder, existingMap, metricArgs, metricOut,
          cancelled, fetching, maps, cursor,
          ordersFile, progressFile, run, response, remote

vars == <<page, orders, loading, error, fromDate, toDate, explodeGummies,
          itemCounts, pairCounts, totalEligibleOrders, bundlesBySize,
          minCount, topN, query, sortBy, selectedProductKey,
          selectedSize, showRangeToEnd, visiblePerSection,
          products, pairs, displayedPairs, alsoBought, sections, exported,
          rawOrder, existingMap, metricArgs, metricOut,
          cancelled, fetching, maps, cursor,
          ordersFile, progressFile, run, response, remote>>

\* the state of a page component (with the cancelled flag of its loader and
\* whether the fetch of the loader is in flight), its memoised values, and what
\* lies outside the page: the download, the sync route with its two files, the
\* metric functions on their own, the loop of the bundle aggregation
pageState == <<page, cancelled, fetching,
               orders, loading, error, fromDate, toDate, explodeGummies,
               minCount, topN, query, sortBy, selectedProductKey,
               selectedSize, showRangeToEnd, visiblePerSection>>
memoState == <<itemCounts, pairCounts, totalEligibleOrders, bundlesBySize,
               products, pairs, displayedPairs, alsoBought, sections>>
syncState == <<ordersFile, progressFile, run, response, remote>>
routeState == <<rawOrder, existingMap, ordersFile, progressFile, run, response, remote>>
calcState == <<metricArgs, metricOut>>
loopState == <<maps, cursor>>

Pages == {"pairs", "bundles", "bundlesById"}

ById == page = "bundlesById"

\* useState(null) and an array value of orders
NullOrders == [isArray |-> FALSE, list |-> <<>>]
ArrayOrders(list) == [isArray |-> TRUE, list |-> list]

\* a parsed orders.json that is no array: null, or an object around the orders
NonArrayJson ==
  {NullOrders, [isArray |-> FALSE, list |-> WithIds(<<PlainOrder(<<LineA, LineB>>)>>)]}

\* setOrders of the orders found in the answer, array or not
ordersFromJsonKeepList(data) == ArrayOrders(data.list)

\* setOrders(Array.isArray(data) ? data : [])
ordersFromJson(data) == IF data.isArray THEN data ELSE ArrayOrders(<<>>)

NoExport == [done |-> FALSE, rows |-> <<>>]
NoOrder == [id |-> Absent]
NoMetric == [of |-> "none"]

\* The useMemo values of the mounted page after a render with the given state.
ShowPairs(r) ==
  /\ itemCounts' = r.itemCounts
  /\ pairCounts' = r.pairCounts
  /\ products' = r.products
  /\ totalEligibleOrders' = r.totalEligibleOrders
  /\ bundlesBySize' = [s \in 1..MaxSize |-> <<>>]

\* a render whose useMemo values are computed again only for another dataset
RenderOnNewOrders(ords, from, to, explode) ==
  IF ords = orders
  THEN UNCHANGED <<itemCounts, pairCounts, products, totalEligibleOrders, bundlesBySize>>
  ELSE IF page = "pairs" THEN ShowPairs(ComputePairs(ords, from, to))
  ELSE /\ itemCounts' = <<>>
       /\ pairCounts' = <<>>
       /\ products' = <<>>
       /\ totalEligibleOrders' = BundleTotalEligible(ords, ById)
       /\ bundlesBySize' = ComputeBundles(ords, explode, ById)

Render(ords, from, to, explode) ==
  IF page = "pairs" THEN ShowPairs(ComputePairs(ords, from, to))
  ELSE /\ itemCounts' = <<>>
       /\ pairCounts' = <<>>
       /\ products' = <<>>
       /\ totalEligibleOrders' = BundleTotalEligible(ords, ById)
       /\ bundlesBySize' = ComputeBundles(ords, explode, ById)

\* The lists the render shows, from the counts of this render and the controls
\* as the handler left them; a handler that is not downloadCSV downloads nothing.
RenderLists ==
  /\ pairs' = IF page = "pairs"
              THEN PairsList([itemCounts |-> itemCounts', pairCounts |-> pairCounts',
                              totalEligibleOrders |-> totalEligibleOrders'],
                             minCount', sortBy')
              ELSE <<>>
  /\ displayedPairs' = displayedPairsOf(pairs', products', query', topN')
  /\ alsoBought' = alsoBoughtOf(pairs', selectedProductKey')
  /\ sections' = IF page = "pairs" \/ loading' \/ error' THEN <<>>
                 ELSE sectionsOf(bundlesBySize',
                                 sizesToShowOf(selectedSize', showRangeToEnd'),
                                 query', visiblePerSection')
  /\ exported' = NoExport

PageInit ==
  /\ page \in Pages
  /\ cancelled = FALSE
  /\ fetching = TRUE
  /\ orders = NullOrders
  /\ loading = TRUE
  /\ error = FALSE
  /\ fromDate = Absent
  /\ toDate = Absent
  /\ explodeGummies = FALSE
  /\ itemCounts = <<>>
  /\ pairCounts = <<>>
  /\ totalEligibleOrders = 0
  /\ bundlesBySize = [s \in 1..MaxSize |-> <<>>]
  /\ minCount = DefaultMinCount
  /\ topN = DefaultTopN
  /\ query = ""
  /\ sortBy = "support"
  /\ selectedProductKey = <<>>
  /\ selectedSize = DefaultSize
  /\ showRangeToEnd = FALSE
  /\ visiblePerSection = DefaultVisible
  /\ products = <<>>
  /\ pairs = <<>>
  /\ displayedPairs = <<>>
  /\ alsoBought = <<>>
  /\ sections = <<>>
  /\ exported = NoExport

\* no orders.json, no orders_progress.json, no run of POST; remote is the
\* number of orders the shop has
NoFile == [exists |-> FALSE, list |-> <<>>]
\* (after is no field of the file: the cut-off of the run that wrote it)
NoProgress == [exists |-> FALSE, lastPageFetched |-> 0, lastIndexInPage |-> 0, after |-> 0]
\* runs counts the calls of POST so far; failures counts the failed fetches
\* since the last fetch that was answered; listed is the number of orders the
\* shop had when the run began
NoRun == [pc |-> "idle", page |-> 0, skipIndex |-> 0, retryCount |-> 0,
          afterIso |-> 0, processed |-> 0, runs |-> 0, failures |-> 0, listed |-> 0]

RouteInit ==
  /\ rawOrder = NoOrder
  /\ existingMap = <<>>
  /\ ordersFile = NoFile
  /\ progressFile = NoProgress
  /\ run = NoRun
  /\ response = "none"
  /\ remote = 0

\* maps = {}; for (let s = 1; s <= 7; s++) maps[s] = new Map(), no order visited
EmptyMaps == [s \in 1..MaxSize |-> <<>>]
LoopIdle == maps = EmptyMaps /\ cursor = 0

CalcInit == metricArgs \in MetricInputs /\ metricOut = NoMetric

CalcIdle == metricArgs = [support |-> 0, countA |-> 0, countB |-> 0, total |-> 0]

Init == PageInit /\ RouteInit /\ CalcInit /\ CalcIdle /\ LoopIdle

\* load(): the fetch answered with a JSON array
LoadArray(data) ==
  /\ fetching
  /\ fetching' = FALSE
  /\ UNCHANGED <<page, cancelled, error, fromDate, toDate, explodeGummies>>
  /\ UNCHANGED <<minCount, topN, query, sortBy, selectedProductKey,
                 selectedSize, showRangeToEnd, visiblePerSection>>
  /\ IF cancelled
     THEN \* "if (cancelled) return", then finally: "if (!cancelled) ..."
          UNCHANGED <<orders, loading, memoState, exported>>
     ELSE /\ orders' = ordersFromJson(ArrayOrders(data))
          /\ loading' = FALSE
          /\ Render(orders', fromDate, toDate, explodeGummies)
          /\ RenderLists
  /\ UNCHANGED <<routeState, calcState, loopState>>

\* load(): the fetch answered with JSON that is no array
LoadNotArray ==
  /\ fetching
  /\ fetching' = FALSE
  /\ UNCHANGED <<page, cancelled, error, fromDate, toDate, explodeGummies>>
  /\ UNCHANGED <<minCount, topN, query, sortBy, selectedProductKey,
                 selectedSize, showRangeToEnd, visiblePerSection>>
  /\ IF cancelled
     THEN UNCHANGED <<orders, loading, memoState, exported>>
     ELSE /\ \E data \in NonArrayJson : orders' = ordersFromJson(data)
          /\ loading' = FALSE
          /\ Render(orders', fromDate, toDate, explodeGummies)
          /\ RenderLists
  /\ UNCHANGED <<routeState, calcState, loopState>>

\* load(): the fetch failed or answered with a status that is not ok.  The
\* catch calls setError whatever cancelled is; finally tests cancelled.
LoadFail ==
  /\ fetching
  /\ fetching' = FALSE
  /\ error' = TRUE
  /\ loading' = IF cancelled THEN loading ELSE FALSE
  /\ UNCHANGED <<page, cancelled, orders, fromDate, toDate, explodeGummies,
                 itemCounts, pairCounts, totalEligibleOrders, bundlesBySize, products>>
  /\ UNCHANGED <<minCount, topN, query, sortBy, selectedProductKey,
                 selectedSize, showRangeToEnd, visiblePerSection>>
  /\ RenderLists
  /\ UNCHANGED <<routeState, calcState, loopState>>

\* onChange of the From control
SetFromDate(d) ==
  /\ page = "pairs"
  /\ d # fromDate
  /\ fromDate' = d
  /\ Render(orders, d, toDate, explodeGummies)
  /\ UNCHANGED <<page, cancelled, fetching, orders, loading, error, toDate, explodeGummies>>
  /\ UNCHANGED <<minCount, topN, query, sortBy, selectedProductKey,
                 selectedSize, showRangeToEnd, visiblePerSection>>
  /\ RenderLists
  /\ UNCHANGED <<routeState, calcState, loopState>>

\* onChange of the To control
SetToDate(d) ==
  /\ page = "pairs"
  /\ d # toDate
  /\ toDate' = d
  /\ Render(orders, fromDate, d, explodeGummies)
  /\ UNCHANGED <<page, cancelled, fetching, orders, loading, error, fromDate, explodeGummies>>
  /\ UNCHANGED <<minCount, topN, query, sortBy, selectedProductKey,
                 selectedSize, showRangeToEnd, visiblePerSection>>
  /\ RenderLists
  /\ UNCHANGED <<routeState, calcState, loopState>>

\* onClick of the gummies toggle: setExplodeGummies(v => !v)
ToggleExplodeGummies ==
  /\ page # "pairs"
  /\ explodeGummies' = ~explodeGummies
  /\ Render(orders, fromDate, toDate, explodeGummies')
  /\ UNCHANGED <<page, cancelled, fetching, orders, loading, error, fromDate, toDate>>
  /\ UNCHANGED <<minCount, topN, query, sortBy, selectedProductKey,
                 selectedSize, showRangeToEnd, visiblePerSection>>
  /\ RenderLists
  /\ UNCHANGED <<routeState, calcState, loopState>>

\* What the handlers of the result-list controls are given.
MinCountPool == {1, 2}
TopNPool == {2, 100}
PairQueryPool == {"", " Beta "}
BundleQueryPool == {"", "Beta"}
QueryPool == IF page = "pairs" THEN PairQueryPool ELSE BundleQueryPool
SortPool == {"support", "lift", "confAtoB", "supportPct"}
ProductKeyPool == {<<>>, <<"1", "::", "0">>, <<"3", "::", "0">>}
SizePool == {1, 2, 3}

\* A handler that changes controls of the result lists only: the counts are
\* recomputed from the same orders and dates, the lists from the new controls.
SameData ==
  /\ UNCHANGED <<page, cancelled, fetching, orders, loading, error, fromDate, toDate, explodeGummies>>
  /\ Render(orders, fromDate, toDate, explodeGummies)
  /\ RenderLists
  /\ UNCHANGED <<routeState, calcState, loopState>>

\* onChange of Min count: setMinCount(Number(e.target.value || 1))
SetMinCount(n) ==
  /\ page = "pairs"
  /\ n # minCount
  /\ minCount' = n
  /\ UNCHANGED <<topN, query, sortBy, selectedProductKey,
                 selectedSize, showRangeToEnd, visiblePerSection>>
  /\ SameData

\* onChange of the top-N input: setTopN(Number(e.target.value || 100))
SetTopN(n) ==
  /\ page = "pairs"
  /\ n # topN
  /\ topN' = n
  /\ UNCHANGED <<minCount, query, sortBy, selectedProductKey,
                 selectedSize, showRangeToEnd, visiblePerSection>>
  /\ SameData

\* onChange of the search box (either page): setQuery(e.target.value)
SetQuery(text) ==
  /\ text \in QueryPool
  /\ text # query
  /\ query' = text
  /\ UNCHANGED <<minCount, topN, sortBy, selectedProductKey,
                 selectedSize, showRangeToEnd, visiblePerSection>>
  /\ SameData

\* onChange of the sort select: setSortBy(e.target.value)
SetSortBy(by) ==
  /\ page = "pairs"
  /\ by # sortBy
  /\ sortBy' = by
  /\ UNCHANGED <<minCount, topN, query, selectedProductKey,
                 selectedSize, showRangeToEnd, visiblePerSection>>
  /\ SameData

\* onChange of the product select: the options are "" and the keys of productsByKey
SetSelectedProductKey(key) ==
  /\ page = "pairs"
  /\ key # selectedProductKey
  /\ key = <<>> \/ MapHas(products, key)
  /\ selectedProductKey' = key
  /\ UNCHANGED <<minCount, topN, query, sortBy,
                 selectedSize, showRangeToEnd, visiblePerSection>>
  /\ SameData

\* onClick of a bundle size button: setSelectedSize(n)
SetSelectedSize(n) ==
  /\ page # "pairs"
  /\ n # selectedSize
  /\ selectedSize' = n
  /\ UNCHANGED <<minCount, topN, query, sortBy, selectedProductKey,
                 showRangeToEnd, visiblePerSection>>
  /\ SameData

\* onChange of the range checkbox: setShowRangeToEnd(e.target.checked)
SetShowRangeToEnd ==
  /\ page # "pairs"
  /\ showRangeToEnd' = ~showRangeToEnd
  /\ UNCHANGED <<minCount, topN, query, sortBy, selectedProductKey,
                 selectedSize, visiblePerSection>>
  /\ SameData

\* onClick of "Show more" in a section that offers it: setVisiblePerSection(v => v + 8)
ShowMore ==
  /\ page # "pairs"
  /\ \E i \in 1..Len(sections) : sections[i].more
  /\ visiblePerSection + DefaultVisible <= MaxVisible
  /\ visiblePerSection' = visiblePerSection + DefaultVisible
  /\ UNCHANGED <<minCount, topN, query, sortBy, selectedProductKey,
                 selectedSize, showRangeToEnd>>
  /\ SameData

\* onClick of Reset: setVisiblePerSection(8); setQuery("")
Reset ==
  /\ page # "pairs"
  /\ visiblePerSection # DefaultVisible \/ query # ""
  /\ visiblePerSection' = DefaultVisible
  /\ query' = ""
  /\ UNCHANGED <<minCount, topN, sortBy, selectedProductKey,
                 selectedSize, showRangeToEnd>>
  /\ SameData

\* onClick of Export CSV on the pairs page: the rows of the file it downloads
DownloadCSV ==
  /\ page = "pairs"
  /\ exported' = [done |-> TRUE, rows |-> CsvRows(pairs, products, topN)]
  /\ UNCHANGED <<pageState, memoState, routeState, calcState, loopState>>

Next ==
  \/ \E data \in Datasets : LoadArray(data)
  \/ LoadNotArray
  \/ LoadFail
  \/ \E d \in DayPool : SetFromDate(d)
  \/ \E d \in DayPool : SetToDate(d)
  \/ ToggleExplodeGummies

Spec == Init /\ [][Next]_vars

\* The handlers of the result-list controls, on the orders of ResultDatasets.
ResultsNext ==
  \/ \E data \in ResultDatasets : LoadArray(data)
  \/ LoadNotArray
  \/ LoadFail
  \/ \E n \in MinCountPool : SetMinCount(n)
  \/ \E n \in TopNPool : SetTopN(n)
  \/ \E text \in PairQueryPool \cup BundleQueryPool : SetQuery(text)
  \/ \E by \in SortPool : SetSortBy(by)
  \/ \E key \in ProductKeyPool : SetSelectedProductKey(key)
  \/ \E n \in SizePool : SetSelectedSize(n)
  \/ SetShowRangeToEnd
  \/ ShowMore
  \/ Reset
  \/ DownloadCSV

ResultsSpec == Init /\ [][ResultsNext]_vars

\* The sync route storing the orders of a fetched page: the body of
\* "for (const rawOrder of pageOrders)".
StoreOrder(raw) ==
  /\ rawOrder' = raw
  /\ existingMap' = PersistOrder(existingMap, raw)
  /\ UNCHANGED <<pageState, memoState, exported, calcState, loopState, syncState>>

IngestNext == \E raw \in RemoteOrders : StoreOrder(raw)

IngestInit == PageInit /\ page = "pairs" /\ RouteInit /\ CalcInit /\ CalcIdle /\ LoopIdle

IngestSpec == IngestInit /\ [][IngestNext]_vars

\* The metric functions applied to arguments of MetricInputs.
ApplyPairMetrics ==
  /\ metricOut' = [of |-> "pair",
                   value |-> PairMetrics(<<"A">>, <<"B">>, metricArgs.support,
                                         metricArgs.countA, metricArgs.countB,
                                         metricArgs.total)]
  /\ UNCHANGED <<pageState, memoState, exported, routeState, metricArgs, loopState>>

ApplyPercentOf ==
  /\ metricOut' = [of |-> "percentOf",
                   value |-> percentOf(metricArgs.total, metricArgs.support)]
  /\ UNCHANGED <<pageState, memoState, exported, routeState, metricArgs, loopState>>

MetricNext == ApplyPairMetrics \/ ApplyPercentOf

MetricInit == PageInit /\ page = "pairs" /\ RouteInit /\ CalcInit /\ LoopIdle

MetricSpec == MetricInit /\ [][MetricNext]_vars

\* The cleanup of the effect, while the fetch of load() is in flight:
\* "return () => { cancelled = true; }"
Unmount ==
  /\ fetching
  /\ ~cancelled
  /\ cancelled' = TRUE
  /\ UNCHANGED <<page, fetching, orders, loading, error, fromDate, toDate, explodeGummies,
                 minCount, topN, query, sortBy, selectedProductKey,
                 selectedSize, showRangeToEnd, visiblePerSection>>
  /\ UNCHANGED <<memoState, exported, routeState, calcState, loopState>>

\* The loader of a page from the mount to the end of load(), with or without
\* an unmount before the answer.
LoaderNext ==
  \/ Unmount
  \/ \E data \in Datasets : LoadArray(data)
  \/ LoadNotArray
  \/ LoadFail

LoaderSpec == Init /\ [][LoaderNext]_vars

----------------------------------------------------------------------------
(* The loop of the bundlesBySize useMemo, an order at a time: cursor orders *)
(* of the dataset are processed into maps; when the loop has ended the      *)
(* sorted lists are returned and cursor stands one past the dataset.        *)

\* an order that resolves to eight items with exploded gummies and to six
\* with consolidated ones; a small order; an order of a status that is skipped
OrderEight ==
  PlainOrder(<<LineGs, LineE, LineB, LineA, LineGM, LineZt, LineD, LineGg>>)
OrderSmall == Order("processing", 10, 0, Absent, Absent, Absent, <<LineGM, LineA>>)
OrderPending == Order("pending", 10, 0, Absent, Absent, Absent, <<LineA, LineB>>)

\* datasets long enough for a record to outgrow its sample with an order
\* skipped on the way: small orders, with the skipped one at position i and
\* the large one at position j (0: not in the dataset)
LoopLen == SampleCap + 2
LoopDatasets ==
  {WithIds([k \in 1..LoopLen |->
              IF k = j THEN OrderEight ELSE IF k = i THEN OrderPending ELSE OrderSmall])
     : i \in 0..LoopLen, j \in 0..LoopLen}

LoopInit ==
  /\ page \in {"bundles", "bundlesById"}
  /\ cancelled = FALSE
  /\ fetching = FALSE
  /\ orders \in {ArrayOrders(d) : d \in LoopDatasets}
  /\ loading = FALSE
  /\ error = FALSE
  /\ fromDate = Absent
  /\ toDate = Absent
  /\ explodeGummies \in BOOLEAN
  /\ itemCounts = <<>>
  /\ pairCounts = <<>>
  /\ totalEligibleOrders = BundleTotalEligible(orders, ById)
  /\ bundlesBySize = [s \in 1..MaxSize |-> <<>>]
  /\ minCount = DefaultMinCount
  /\ topN = DefaultTopN
  /\ query = ""
  /\ sortBy = "support"
  /\ selectedProductKey = <<>>
  /\ selectedSize = DefaultSize
  /\ showRangeToEnd = FALSE
  /\ visiblePerSection = DefaultVisible
  /\ products = <<>>
  /\ pairs = <<>>
  /\ displayedPairs = <<>>
  /\ alsoBought = <<>>
  /\ sections = <<>>
  /\ exported = NoExport
  /\ RouteInit /\ CalcInit /\ CalcIdle /\ LoopIdle

\* one iteration of "for (const order of orders)"
ProcessOrder ==
  /\ cursor < Len(orders.list)
  /\ maps' = BundleOrderStep(maps, orders.list[cursor + 1], explodeGummies, ById)
  /\ cursor' = cursor + 1
  /\ UNCHANGED <<pageState, memoState, exported, routeState, calcState>>

\* the end of the useMemo: out[s] for every size, and the render of the lists
ReturnBundles ==
  /\ cursor = Len(orders.list)
  /\ cursor' = cursor + 1
  /\ bundlesBySize' = BundleOutAll(maps, ById)
  /\ UNCHANGED <<maps, pageState, itemCounts, pairCounts, totalEligibleOrders, products>>
  /\ RenderLists
  /\ UNCHANGED <<routeState, calcState>>

LoopNext == ProcessOrder \/ ReturnBundles

LoopSpec == LoopInit /\ [][LoopNext]_vars

----------------------------------------------------------------------------
(* Parameter changes and reloads of a page: a reload of the browser page    *)
(* mounts the component anew, every useState back at its initial value and  *)
(* the loader fetching again.                                               *)

\* the orders of the datasets a page is reloaded with: gummies of two
\* flavors, a dated order, an order of one product
ReloadOrders ==
  { PlainOrder(<<LineB, LineGM, LineGg>>),
    Order("completed", 10, 0, InLastSecondOfDay1, Absent, Absent, <<LineA, LineB>>),
    PlainOrder(<<LineA>>) }

ReloadDatasets == {WithIds(s) : s \in SeqsUpTo(ReloadOrders, MaxReloaded)}

Remount ==
  /\ ~fetching
  /\ cancelled' = FALSE
  /\ fetching' = TRUE
  /\ orders' = NullOrders
  /\ loading' = TRUE
  /\ error' = FALSE
  /\ fromDate' = Absent
  /\ toDate' = Absent
  /\ explodeGummies' = FALSE
  /\ minCount' = DefaultMinCount
  /\ topN' = DefaultTopN
  /\ query' = ""
  /\ sortBy' = "support"
  /\ selectedProductKey' = <<>>
  /\ selectedSize' = DefaultSize
  /\ showRangeToEnd' = FALSE
  /\ visiblePerSection' = DefaultVisible
  /\ Render(orders', fromDate', toDate', explodeGummies')
  /\ RenderLists
  /\ UNCHANGED <<page, routeState, calcState, loopState>>

RecomputeNext ==
  \/ \E data \in ReloadDatasets : LoadArray(data)
  \/ \E d \in DayPool : SetFromDate(d)
  \/ \E d \in DayPool : SetToDate(d)
  \/ ToggleExplodeGummies
  \/ \E n \in MinCountPool : SetMinCount(n)
  \/ \E by \in SortPool : SetSortBy(by)
  \/ Remount

RecomputeSpec == Init /\ [][RecomputeNext]_vars

----------------------------------------------------------------------------
(* The sync route POST, a step at a time: the process may die between any   *)
(* two steps, and a later call resumes from the two files.                  *)

\* the remote shop: its orders have the ids 1..remote, a second apart, all
\* after the default cut-off
SyncOrder(i) ==
  [Order("completed", 10, 0, Absent, Absent, DefaultAfter + i * SecondMs, <<LineA>>)
     EXCEPT !.id = i]

Remote == [i \in 1..remote |-> SyncOrder(i)]

\* GET /orders?after=...&orderby=date&order=asc&per_page=...&page=...
Listing(after) ==
  LET Later(o) == o.date_created > after IN SelectSeq(Remote, Later)

fetchOrdersPage(after, pageNo) ==
  SubSeq(Listing(after), (pageNo - 1) * PerPage + 1,
         Min2(pageNo * PerPage, Len(Listing(after))))

\* o[f] of the first field of DATE_FIELD_PREFERENCE the order has
SavedDate(o) ==
  IF o.date_created # Absent THEN o.date_created ELSE o.date_created_gmt

\* computeAfterIso(): the default, or the last saved date minus a second
computeAfterIso(file) ==
  LET dates == {SavedDate(file.list[i]) : i \in 1..Len(file.list)} \ {Absent}
      maxDate == CHOOSE d \in dates : \A e \in dates : e <= d
  IN  IF ~file.exists \/ dates = {} THEN DefaultAfter
      ELSE IF maxDate - SecondMs > DefaultAfter THEN maxDate - SecondMs
      ELSE DefaultAfter

\* for (const o of arr) existingMap.set(String(o.id), o)
RECURSIVE LoadMap(_, _)
LoadMap(map, arr) ==
  IF arr = <<>> THEN map
  ELSE LoadMap(MapSet(map, NumStr(Head(arr).id), Head(arr)), Tail(arr))

\* for (const rawOrder of pageOrders) existingMap.set(..., simplifyOrder(rawOrder))
RECURSIVE StoreAll(_, _)
StoreAll(map, pageOrders) ==
  IF pageOrders = <<>> THEN map
  ELSE StoreAll(PersistOrder(map, Head(pageOrders)), Tail(pageOrders))

\* Array.from(existingMap.values())
ValuesOf(map) == [i \in 1..Len(map) |-> map[i].v]

\* page = Number(progress.lastPageFetched) || 1, skipIndex = ... || 0, and
\* "if (skipIndex >= PER_PAGE) { page = page + 1; skipIndex = 0; }"
ResumePage(progress) ==
  LET p == IF progress.exists /\ progress.lastPageFetched # 0
           THEN progress.lastPageFetched ELSE 1
  IN  IF progress.exists /\ progress.lastIndexInPage >= PerPage THEN p + 1 ELSE p

ResumeSkip(progress) ==
  IF progress.exists /\ progress.lastIndexInPage < PerPage
  THEN progress.lastIndexInPage ELSE 0

SyncIdle == UNCHANGED <<pageState, memoState, exported, calcState, loopState, rawOrder>>

\* a call of POST is under way
Running == run.pc \in {"fetch", "save", "progress"}

\* POST up to the loop
StartRun ==
  /\ ~Running
  /\ run.runs < MaxRuns
  /\ existingMap' = LoadMap(<<>>, ordersFile.list)
  /\ run' = [pc |-> "fetch", page |-> ResumePage(progressFile),
             skipIndex |-> ResumeSkip(progressFile), retryCount |-> 0,
             afterIso |-> computeAfterIso(ordersFile), processed |-> 0,
             runs |-> run.runs + 1, failures |-> 0, listed |-> remote]
  /\ response' = "none"
  /\ UNCHANGED <<ordersFile, progressFile, remote>>
  /\ SyncIdle

\* the fetch throws or answers with a status >= 400: the catch of the loop
FetchFail ==
  /\ run.pc = "fetch"
  /\ run' = [run EXCEPT !.retryCount = @ + 1, !.failures = @ + 1,
                        !.pc = IF run.retryCount + 1 > MaxRetries THEN "idle" ELSE "fetch"]
  /\ response' = IF run.retryCount + 1 > MaxRetries THEN "failed" ELSE response
  /\ UNCHANGED <<existingMap, ordersFile, progressFile, remote>>
  /\ SyncIdle

\* originalPageOrders.length === 0: break, and the answer ok: true
FetchEmpty ==
  /\ run.pc = "fetch"
  /\ fetchOrdersPage(run.afterIso, run.page) = <<>>
  /\ run' = [run EXCEPT !.pc = "idle", !.failures = 0]
  /\ response' = "ok"
  /\ UNCHANGED <<existingMap, ordersFile, progressFile, remote>>
  /\ SyncIdle

\* skipIndex >= originalPageOrders.length: the page is taken as processed
FetchSkipPage ==
  /\ run.pc = "fetch"
  /\ fetchOrdersPage(run.afterIso, run.page) # <<>>
  /\ run.skipIndex > 0
  /\ run.skipIndex >= Len(fetchOrdersPage(run.afterIso, run.page))
  /\ progressFile' = [exists |-> TRUE, lastPageFetched |-> run.page,
                      lastIndexInPage |-> Len(fetchOrdersPage(run.afterIso, run.page)),
                      after |-> run.afterIso]
  /\ run' = [run EXCEPT !.page = @ + 1, !.skipIndex = 0, !.failures = 0]
  /\ UNCHANGED <<existingMap, ordersFile, response, remote>>
  /\ SyncIdle

\* pageOrders = originalPageOrders.slice(skipIndex), stored into existingMap
FetchPage ==
  /\ run.pc = "fetch"
  /\ fetchOrdersPage(run.afterIso, run.page) # <<>>
  /\ ~(run.skipIndex > 0 /\ run.skipIndex >= Len(fetchOrdersPage(run.afterIso, run.page)))
  /\ existingMap' =
       StoreAll(existingMap,
                SubSeq(fetchOrdersPage(run.afterIso, run.page), run.skipIndex + 1,
                       Len(fetchOrdersPage(run.afterIso, run.page))))
  /\ run' = [run EXCEPT !.pc = "save", !.failures = 0,
                        !.processed = Len(fetchOrdersPage(run.afterIso, run.page))
                                        - run.skipIndex]
  /\ UNCHANGED <<ordersFile, progressFile, response, remote>>
  /\ SyncIdle

\* writeFile(TEMP_FILE, merged); rename(TEMP_FILE, ORDERS_FILE)
SaveOrders ==
  /\ run.pc = "save"
  /\ ordersFile' = [exists |-> TRUE, list |-> ValuesOf(existingMap)]
  /\ run' = [run EXCEPT !.pc = "progress"]
  /\ UNCHANGED <<existingMap, progressFile, response, remote>>
  /\ SyncIdle

\* writeFile(PROGRESS_FILE, ...); page += 1; skipIndex = 0; retryCount = 0
WriteProgress ==
  /\ run.pc = "progress"
  /\ progressFile' = [exists |-> TRUE, lastPageFetched |-> run.page,
                      lastIndexInPage |-> run.skipIndex + run.processed,
                      after |-> run.afterIso]
  /\ run' = [run EXCEPT !.pc = "fetch", !.page = @ + 1, !.skipIndex = 0,
                        !.retryCount = 0, !.processed = 0]
  /\ UNCHANGED <<existingMap, ordersFile, response, remote>>
  /\ SyncIdle

\* the process dies: what is in memory is lost, the files stay
Crash ==
  /\ Running
  /\ run' = [run EXCEPT !.pc = "dead"]
  /\ UNCHANGED <<existingMap, ordersFile, progressFile, response, remote>>
  /\ SyncIdle

\* a customer places an order (between two calls of POST: the listing does
\* not change under a call that is running)
NewOrder ==
  /\ ~Running
  /\ remote < RemoteCount
  /\ remote' = remote + 1
  /\ UNCHANGED <<existingMap, ordersFile, progressFile, run, response>>
  /\ SyncIdle

RunStep == FetchFail \/ FetchEmpty \/ FetchSkipPage \/ FetchPage \/ SaveOrders \/ WriteProgress

SyncNext == NewOrder \/ StartRun \/ RunStep \/ Crash

SyncSpec == IngestInit /\ [][SyncNext]_vars

\* the same with a run that goes on while it can
SyncFairSpec == IngestInit /\ [][SyncNext]_vars /\ WF_vars(RunStep)

----------------------------------------------------------------------------
(* Notions the properties are stated with.                                 *)

PartsOfPair(pairKey) == Range(SplitOn(pairKey, "||"))
PartsOfBundle(bundleKey) == Range(SplitOn(bundleKey, " | "))

\* the itemsets the mounted page has aggregated: [items, size, count]
Aggregated ==
  IF page = "pairs"
  THEN {[items |-> {itemCounts[i].k}, size |-> 1, count |-> itemCounts[i].v]
          : i \in 1..Len(itemCounts)}
       \cup {[items |-> PartsOfPair(pairCounts[i].k), size |-> 2, count |-> pairCounts[i].v]
               : i \in 1..Len(pairCounts)}
  ELSE UNION {{[items |-> PartsOfBundle(bundlesBySize[s][i].idKey), size |-> s,
                count |-> bundlesBySize[s][i].count] : i \in 1..Len(bundlesBySize[s])}
              : s \in 1..MaxSize}

\* the orders of the dataset that pass the mounted page's eligibility test
EligibleHere(o) ==
  IF page = "pairs" THEN isOrderEligible(o, fromIsoOf(fromDate), toIsoOf(toDate))
  ELSE BundleStatusOk(o, ById)

\* the keys of the items the mounted page resolves an order to
ResolvedKeys(o) ==
  IF page = "pairs"
  THEN {it.key : it \in Range(extractItemsForOrder(o))}
  ELSE {DedupeKey(it, ById) : it \in Range(extractLineItems(o, explodeGummies, ById))}

OrderIndexes == 1..Len(orders.list)

\* number of eligible orders whose resolved items include all of ks
Containing(ks) ==
  Cardinality({i \in OrderIndexes :
                 EligibleHere(orders.list[i]) /\ ks \subseteq ResolvedKeys(orders.list[i])})

----------------------------------------------------------------------------
(* C1  Antimonotonicity: of two aggregated itemsets S and T with S a       *)
(* subset of T, S has at least the count of T; on the bundle pages across   *)
(* the maps of the sizes 1..7 in both gummies modes, on the pairs page      *)
(* between itemCounts and pairCounts.                                       *)
Antimonotone ==
  \A S \in Aggregated : \A T \in Aggregated :
    S.items \subseteq T.items => S.count >= T.count

\* a pair and a triple of exploded items, the pair in more orders than the triple
AntimonotoneWitness ==
  /\ page = "bundles"
  /\ explodeGummies
  /\ \E S \in Aggregated : \E T \in Aggregated :
       /\ S.size = 2 /\ T.size = 3
       /\ S.items \subseteq T.items
       /\ <<"Gummies(", "Mango", ")">> \in S.items
       /\ S.count = 2 /\ T.count = 1

(* C2  Presence-based counting: the count of every aggregated itemset is   *)
(* the number of eligible orders whose resolved items contain it, its items *)
(* are distinct, and every single resolved item of an eligible order is     *)
(* aggregated; so N lines of one key count once.                            *)
PresenceCounting ==
  /\ \A S \in Aggregated :
       /\ Cardinality(S.items) = S.size
       /\ S.count = Containing(S.items)
  /\ \A i \in OrderIndexes :
       EligibleHere(orders.list[i]) =>
         \A k \in ResolvedKeys(orders.list[i]) :
           \E S \in Aggregated : S.items = {k}

\* one order with two lines of the same key, counted once
PresenceCountingWitness ==
  /\ page = "pairs"
  /\ Len(orders.list) = 1
  /\ orders.list[1].line_items = <<LineA, LineA>>
  /\ itemCounts = << [k |-> <<"1", "::", "0">>, v |-> 1] >>
  /\ pairCounts = <<>>

----------------------------------------------------------------------------
(* What the mounted page shows, and what it would show for another list.   *)

Memo == <<itemCounts, pairCounts, totalEligibleOrders, bundlesBySize>>

RenderedFrom(list) ==
  IF page = "pairs"
  THEN LET r == ComputePairs(ArrayOrders(list), fromDate, toDate)
       IN  <<r.itemCounts, r.pairCounts, r.totalEligibleOrders, [s \in 1..MaxSize |-> <<>>]>>
  ELSE << <<>>, <<>>, BundleTotalEligible(ArrayOrders(list), ById),
          ComputeBundles(ArrayOrders(list), explodeGummies, ById) >>

\* the statuses a page accepts, and the spellings of a status that differ in
\* case only
AcceptedStatuses ==
  IF page = "pairs" THEN {"completed"}
  ELSE IF page = "bundles" THEN {"completed", "processing"}
  ELSE {"completed", "processing", "paid"}

Spellings(st) == IF st = "completed" THEN {"completed", "Completed", "COMPLETED"} ELSE {st}

StatusAccepted(o) == \E st \in AcceptedStatuses : o.status \in Spellings(st)

NotRefunded(o) ==
  ~(NumberOr0(o.total) = 0 \/ NumberOr0(o.total_refunded) >= NumberOr0(o.total))

(* C3  Status eligibility: an order whose status is not, ignoring case, one *)
(* of the page's accepted statuses contributes to no count and not to       *)
(* totalEligibleOrders: the page shows what it shows without these orders.  *)
StatusEligibility ==
  orders.isArray => Memo = RenderedFrom(SelectSeq(orders.list, StatusAccepted))

\* the pairs page over a pending and a Completed order: one eligible order
StatusEligibilityWitness ==
  /\ page = "pairs"
  /\ Len(orders.list) = 2
  /\ orders.list[1].status = "pending"
  /\ orders.list[2].status = "Completed"
  /\ totalEligibleOrders = 1
  /\ Len(pairCounts) = 1

(* C4  Refund exclusion: on every page an order with total zero or with    *)
(* total_refunded >= total contributes to no count and not to               *)
(* totalEligibleOrders.                                                     *)
RefundExclusion ==
  orders.isArray => Memo = RenderedFrom(SelectSeq(orders.list, NotRefunded))

\* the range of the claim: from 00:00 of the From day to the last instant of
\* the To day, both included; an order without a usable date is in range
InClaimedRange(o) ==
  LET d == toDateSafe(dateVal(o))
  IN  \/ d = Absent
      \/ /\ fromDate # Absent => d >= fromDate * DayMs
         /\ toDate # Absent => d < (toDate + 1) * DayMs

(* C5  Date-range eligibility: on the pairs page an order that passes the  *)
(* status and refund rules is eligible exactly if its resolved date lies in *)
(* [from, to], every instant of the To day included, or it has no date.     *)
DateRangeEligibility ==
  page = "pairs" =>
    totalEligibleOrders =
      Cardinality({i \in OrderIndexes :
                     /\ StatusAccepted(orders.list[i])
                     /\ NotRefunded(orders.list[i])
                     /\ InClaimedRange(orders.list[i])})

----------------------------------------------------------------------------
(* The resolver.                                                           *)

Perms(seq) ==
  LET n == Len(seq)
      bij == {f \in [1..n -> 1..n] : \A i \in 1..n : \A j \in 1..n : f[i] = f[j] => i = j}
  IN  {[i \in 1..n |-> seq[f[i]]] : f \in bij}

\* the canonical items the mounted page resolves an order to: key, label and
\* flavors
Canonical(o) ==
  IF page = "pairs"
  THEN {[key |-> it.key, label |-> it.label, flavors |-> {}]
          : it \in Range(extractItemsForOrder(o))}
  ELSE {[key |-> DedupeKey(it, ById), label |-> it.displayName, flavors |-> Range(it.flavors)]
          : it \in Range(extractLineItems(o, explodeGummies, ById))}

\* every line of the order has a positive quantity and a positive total
AllSignal(o) == \A li \in Range(o.line_items) : ~PairLineSkipped(li)

(* C6  Line-item order independence: permuting the line items of an order  *)
(* changes neither the canonical items resolved for it nor, hence, the      *)
(* itemset keys it contributes; in consolidated and in exploded mode.       *)
(* Stated for the orders whose lines all carry signal.                      *)
LineOrderIndependence ==
  \A i \in OrderIndexes :
    AllSignal(orders.list[i]) =>
      \A ls \in Perms(orders.list[i].line_items) :
        Canonical([orders.list[i] EXCEPT !.line_items = ls]) = Canonical(orders.list[i])

IsGummiesLine(li) == \E i \in 1..Len(li.name) : HasGummi(li.name[i])

GummiesLines(o) == {li \in Range(o.line_items) : IsGummiesLine(li)}

\* the flavors detected in one matching line (name, metadata, and the
\* metadata text the code falls back to), and in all matching lines of an order
DetectedInLine(li) == Range(GummiesFlavorsAfter(<<>>, li))
DetectedInOrder(o) == UNION {DetectedInLine(li) : li \in GummiesLines(o)}

(* C7  Exploded mode: an order with a matching line resolves to exactly one *)
(* Gummies(f) item for every flavor f detected in its matching lines, and to *)
(* Gummies(Unspecified) exactly if no flavor is detected in any of them.    *)
(* Stated for the orders whose lines all carry signal.                      *)
ExplodedMode ==
  (page # "pairs" /\ explodeGummies) =>
    \A i \in OrderIndexes :
      LET o == orders.list[i]
          names == {it.displayName : it \in Range(extractLineItems(o, TRUE, ById))}
          gummies == {n \in names : Head(n) = "Gummies("}
      IN  (AllSignal(o) /\ GummiesLines(o) # {}) =>
            gummies = IF DetectedInOrder(o) = {} THEN {<<"Gummies(", "Unspecified", ")">>}
                      ELSE {<<"Gummies(", f, ")">> : f \in DetectedInOrder(o)}

(* C8  Consolidated mode: an order with a matching line resolves to exactly *)
(* one Gummies item, whose flavors are the flavors detected in the matching  *)
(* lines, and are {Unspecified} exactly if none is detected.                 *)
(* Stated for the orders whose lines all carry signal.                      *)
ConsolidatedMode ==
  (page # "pairs" /\ ~explodeGummies) =>
    \A i \in OrderIndexes :
      LET o == orders.list[i]
          items == extractLineItems(o, FALSE, ById)
          gummies == {j \in 1..Len(items) : items[j].displayName = <<"Gummies">>}
      IN  (AllSignal(o) /\ GummiesLines(o) # {}) =>
            /\ Cardinality(gummies) = 1
            /\ \A j \in gummies :
                 Range(items[j].flavors) =
                   IF DetectedInOrder(o) = {} THEN {"Unspecified"} ELSE DetectedInOrder(o)

\* the lines that carry signal and match no group
SignalLines(o) ==
  {li \in Range(o.line_items) : ~PairLineSkipped(li) /\ ~IsGummiesLine(li)}

\* the key the mounted page gives a line that matches no group
KeyHere(li) ==
  IF page = "pairs" THEN PairKeyOfLine(li)
  ELSE IF page = "bundles" THEN normalizeProductName(li.name).product
  ELSE <<NumStr(li.product_id)>>

CountedAsPair(k1, k2) ==
  \E S \in Aggregated : S.size = 2 /\ S.items = {k1, k2} /\ S.count >= 1

(* C9 as claimed: on every page two lines of an eligible order that match  *)
(* no group and differ in product_id or variation_id resolve to two items    *)
(* and are counted as a pair.                                                *)
DefaultIdentityEverywhere ==
  \A i \in OrderIndexes :
    EligibleHere(orders.list[i]) =>
      \A la \in SignalLines(orders.list[i]) : \A lb \in SignalLines(orders.list[i]) :
        <<la.product_id, NumberOr0(la.variation_id)>> # <<lb.product_id, NumberOr0(lb.variation_id)>>
          => /\ KeyHere(la) # KeyHere(lb)
             /\ CountedAsPair(KeyHere(la), KeyHere(lb))

\* the identity of a line that matches no group, page by page
IdentityHere(li) ==
  IF page = "pairs"
  THEN <<NumStr(li.product_id), "::", NumStr(IF li.variation_id = Absent THEN 0 ELSE li.variation_id)>>
  ELSE IF page = "bundles"
  THEN (IF li.name = <<>> THEN <<"Unknown">> ELSE SubSeq(li.name, 1, Min2(2, Len(li.name))))
  ELSE <<NumStr(li.product_id)>>

(* C9  Default product identity, page by page: the pairs page identifies a *)
(* line that matches no group by product_id::variation_id (0 when absent),   *)
(* the display-name page by the first two words of its name, the product-id  *)
(* page by product_id alone.  An eligible order resolves such lines to one    *)
(* item per identity, and two of them with different identities are counted   *)
(* as a pair.                                                                *)
DefaultIdentityPerPage ==
  \A i \in OrderIndexes :
    LET o == orders.list[i]
        items == IF page = "pairs" THEN extractItemsForOrder(o)
                 ELSE extractLineItems(o, explodeGummies, ById)
    IN  EligibleHere(o) =>
          /\ Len(items) = Cardinality(ResolvedKeys(o))
          /\ \A la \in SignalLines(o) : IdentityHere(la) \in ResolvedKeys(o)
          /\ \A la \in SignalLines(o) : \A lb \in SignalLines(o) :
               IdentityHere(la) # IdentityHere(lb)
                 => CountedAsPair(IdentityHere(la), IdentityHere(lb))

\* the pairs page over one order with two variations of one product
DefaultIdentityWitness ==
  /\ page = "pairs"
  /\ Len(orders.list) = 1
  /\ orders.list[1].line_items = <<LineA, LineAv>>
  /\ Len(itemCounts) = 2
  /\ CountedAsPair(<<"1", "::", "0">>, <<"1", "::", "7">>)

\* an order without its lines of quantity <= 0 or total <= 0
WithoutZeroSignal(o) ==
  LET HasSignal(li) == ~PairLineSkipped(li)
  IN  [o EXCEPT !.line_items = SelectSeq(@, HasSignal)]

(* C10  Zero-signal line items are ignored: on every page the lines with   *)
(* quantity <= 0 or total <= 0 produce no item, do not mark the gummies      *)
(* group present and contribute to no count: the page shows what it shows    *)
(* without them.                                                             *)
ZeroSignalIgnored ==
  orders.isArray =>
    Memo = RenderedFrom([i \in OrderIndexes |-> WithoutZeroSignal(orders.list[i])])

----------------------------------------------------------------------------
(* Properties of the result lists.                                          *)

\* the pair of the list made from the entry of pairCounts with this key
PairOfKey(pairKey) ==
  {j \in 1..Len(pairs) : {pairs[j].A, pairs[j].B} = PartsOfPair(pairKey)}

\* no pair below minCount is listed, every pair at or above it is
PairsAboveMinCount ==
  /\ \A j \in 1..Len(pairs) : pairs[j].support >= minCount
  /\ \A i \in 1..Len(pairCounts) :
       pairCounts[i].v >= minCount =>
         \E j \in PairOfKey(pairCounts[i].k) : pairs[j].support = pairCounts[i].v

\* no itemset below minCount is returned in bundle mode
BundlesAboveMinCount ==
  \A s \in 1..MaxSize :
    \A i \in 1..Len(bundlesBySize[s]) : bundlesBySize[s][i].count >= minCount

(* C11  minCount filtering: for every minCount and every sort key no pair  *)
(* with support < minCount is in the pair results and every pair with       *)
(* support >= minCount is in the list before label filtering and            *)
(* truncation; the same threshold applies to the itemsets returned in       *)
(* bundle mode.                                                             *)
MinCountFiltering ==
  IF page = "pairs" THEN PairsAboveMinCount ELSE BundlesAboveMinCount

\* the metrics the last application produced are numbers, not NaN or Infinity
MetricsFinite(m) ==
  /\ IsFinite(m.supportPct)
  /\ IsFinite(m.confAtoB)
  /\ IsFinite(m.confBtoA)
  /\ IsFinite(m.lift)

(* C12  Zero-denominator guard: supportPct is 0 when the total is 0,       *)
(* confAtoB is 0 when countA is 0, confBtoA is 0 when countB is 0, lift is  *)
(* 0 when the total, countA or countB is 0, percentOf is 0 when its total   *)
(* is 0; no metric is ever NaN or Infinity.                                 *)
ZeroDenominatorGuard ==
  /\ metricOut # NoMetric /\ metricOut.of = "pair" =>
       /\ MetricsFinite(metricOut.value)
       /\ metricArgs.total = 0 => metricOut.value.supportPct = Num(0)
       /\ metricArgs.countA = 0 => metricOut.value.confAtoB = Num(0)
       /\ metricArgs.countB = 0 => metricOut.value.confBtoA = Num(0)
       /\ (metricArgs.total = 0 \/ metricArgs.countA = 0 \/ metricArgs.countB = 0) =>
            metricOut.value.lift = Num(0)
  /\ metricOut # NoMetric /\ metricOut.of = "percentOf" =>
       /\ metricOut.value \in Nat
       /\ metricArgs.total = 0 => metricOut.value = 0

\* the pair metrics of a positive support with countA 0 and total 0
ZeroDenominatorWitness ==
  /\ metricOut # NoMetric
  /\ metricOut.of = "pair"
  /\ metricArgs.support > 0
  /\ metricArgs.countA = 0
  /\ metricArgs.countB > 0
  /\ metricArgs.total = 0
  /\ metricOut.value.confBtoA # Num(0)

\* a number of the closed interval [0, 1]
InUnitInterval(x) == IsFinite(x) /\ ~NumLess(x, Num(0)) /\ ~NumLess(Num(1), x)

(* C13  Confidence consistency: for every reported pair (A, B),            *)
(* confAtoB * countA = support = confBtoA * countB, countA and countB being *)
(* the numbers of eligible orders that contain A and B; both confidences    *)
(* lie in [0, 1].                                                           *)
ConfidenceConsistency ==
  page = "pairs" =>
    \A j \in 1..Len(pairs) :
      /\ pairs[j].countA = Containing({pairs[j].A})
      /\ pairs[j].countB = Containing({pairs[j].B})
      /\ pairs[j].support = Containing({pairs[j].A, pairs[j].B})
      /\ Mul(pairs[j].confAtoB, Num(pairs[j].countA)) = Num(pairs[j].support)
      /\ Mul(pairs[j].confBtoA, Num(pairs[j].countB)) = Num(pairs[j].support)
      /\ InUnitInterval(pairs[j].confAtoB)
      /\ InUnitInterval(pairs[j].confBtoA)

\* a reported pair whose two confidences differ, one of them below 1
ConfidenceConsistencyWitness ==
  /\ page = "pairs"
  /\ \E j \in 1..Len(pairs) :
       /\ pairs[j].countA > pairs[j].support
       /\ pairs[j].countB = pairs[j].support
       /\ pairs[j].confAtoB = Frac(1, 2)
       /\ pairs[j].confBtoA = Num(1)

\* the entries of an also-bought list for the partner with this key
EntriesFor(list, key) == {i \in 1..Len(list) : list[i].productKey = key}

(* C14  Lift: for every reported pair (A, B) with N > 0,                   *)
(* lift * countA * countB = N * support; the lift reported for A with       *)
(* partner B is the lift reported for B with partner A, in the also-bought  *)
(* list of a selected product too.                                          *)
LiftSymmetric ==
  page = "pairs" =>
    /\ \A j \in 1..Len(pairs) :
         /\ totalEligibleOrders > 0 =>
              Mul(pairs[j].lift, Num(pairs[j].countA * pairs[j].countB))
                = Num(totalEligibleOrders * pairs[j].support)
         /\ \A i \in EntriesFor(alsoBoughtOf(pairs, pairs[j].A), pairs[j].B) :
              alsoBoughtOf(pairs, pairs[j].A)[i].lift = pairs[j].lift
         /\ \A i \in EntriesFor(alsoBoughtOf(pairs, pairs[j].B), pairs[j].A) :
              alsoBoughtOf(pairs, pairs[j].B)[i].lift = pairs[j].lift
         /\ EntriesFor(alsoBoughtOf(pairs, pairs[j].A), pairs[j].B) # {}
         /\ EntriesFor(alsoBoughtOf(pairs, pairs[j].B), pairs[j].A) # {}
    /\ \A i \in 1..Len(alsoBought) :
         \E j \in 1..Len(pairs) :
           /\ {pairs[j].A, pairs[j].B} = {selectedProductKey, alsoBought[i].productKey}
           /\ alsoBought[i].lift = pairs[j].lift

\* the also-bought list of the second product of a pair whose lift is 2
LiftSymmetricWitness ==
  /\ page = "pairs"
  /\ \E j \in 1..Len(pairs) :
       /\ selectedProductKey = pairs[j].B
       /\ pairs[j].lift = Num(2)
       /\ \E i \in 1..Len(alsoBought) :
            /\ alsoBought[i].productKey = pairs[j].A
            /\ alsoBought[i].lift = pairs[j].lift

\* the number of orders of the dataset that pass the eligibility test
EligibleCount ==
  Cardinality({i \in OrderIndexes : EligibleHere(orders.list[i])})

(* C15  Support percentage: for every reported pair supportPct * N equals  *)
(* 100 * support, N being the number of eligible orders, those that resolve *)
(* to no item included; supportPct is 0 when N is 0.                        *)
SupportPercentage ==
  page = "pairs" =>
    /\ totalEligibleOrders = EligibleCount
    /\ \A j \in 1..Len(pairs) :
         Mul(pairs[j].supportPct, Num(EligibleCount)) = Num(100 * pairs[j].support)
    /\ \A support \in 0..MaxCount : supportPctOf(support, 0) = Num(0)

\* a pair of one order, reported at 50 % because a second eligible order
\* resolves to no item
SupportPercentageWitness ==
  /\ page = "pairs"
  /\ EligibleCount = 2
  /\ \E i \in OrderIndexes :
       EligibleHere(orders.list[i]) /\ ResolvedKeys(orders.list[i]) = {}
  /\ \E j \in 1..Len(pairs) :
       pairs[j].support = 1 /\ pairs[j].supportPct = Num(50)

\* the indexes of the eligible orders of the dataset
EligibleIndexes == {i \in OrderIndexes : EligibleHere(orders.list[i])}

\* exactly two eligible orders, one resolving to {X, Y} and one to {X}
ScenarioTwo(X, Y) ==
  /\ X # Y
  /\ Cardinality(EligibleIndexes) = 2
  /\ \E i \in EligibleIndexes : \E k \in EligibleIndexes :
       /\ ResolvedKeys(orders.list[i]) = {X, Y}
       /\ ResolvedKeys(orders.list[k]) = {X}

\* the confidence of the pair p from the item with this key to the other one
ConfFrom(p, key) == IF p.A = key THEN p.confAtoB ELSE p.confBtoA

\* support({X}) = 2, support({Y}) = 1, and a reported pair (X, Y) of support 1,
\* confidence(X->Y) = 0.5, confidence(Y->X) = 1.0, lift = 1.0
ScenarioTwoReport(X, Y) ==
  /\ MapGet(itemCounts, X, 0) = 2
  /\ MapGet(itemCounts, Y, 0) = 1
  /\ \E j \in 1..Len(pairs) :
       /\ {pairs[j].A, pairs[j].B} = {X, Y}
       /\ pairs[j].support = 1
       /\ ConfFrom(pairs[j], X) = Frac(1, 2)
       /\ ConfFrom(pairs[j], Y) = Num(1)
       /\ pairs[j].lift = Num(1)

\* the keys of the products of the dataset
KeysOfDataset == UNION {ResolvedKeys(orders.list[i]) : i \in OrderIndexes}

(* C16  Scenario 2 as stated: for a dataset of exactly two eligible        *)
(* orders, one resolving to {X, Y} and one to {X}, the page reports         *)
(* support({X}) = 2, support({Y}) = 1, a pair (X, Y) with support 1,        *)
(* confidence(X->Y) = 0.5, confidence(Y->X) = 1.0 and lift = 1.0.           *)
ScenarioTwoAlways ==
  page = "pairs" =>
    \A X \in KeysOfDataset : \A Y \in KeysOfDataset :
      ScenarioTwo(X, Y) => ScenarioTwoReport(X, Y)

(* C16  Scenario 2 with the threshold at most 1: the same report, for the   *)
(* states of the page in which minCount <= 1.                               *)
ScenarioTwoAtMinCountOne ==
  page = "pairs" /\ minCount <= 1 =>
    \A X \in KeysOfDataset : \A Y \in KeysOfDataset :
      ScenarioTwo(X, Y) => ScenarioTwoReport(X, Y)

\* the scenario on the page with minCount 1: X is 1::0 and Y is 3::0
ScenarioTwoWitness ==
  /\ page = "pairs"
  /\ minCount = 1
  /\ ScenarioTwo(<<"1", "::", "0">>, <<"3", "::", "0">>)
  /\ ScenarioTwoReport(<<"1", "::", "0">>, <<"3", "::", "0">>)

\* the position at which the key of the pair p was inserted in pairCounts
PairInsertedAt(p) ==
  CHOOSE i \in 1..Len(pairCounts) : PartsOfPair(pairCounts[i].k) = {p.A, p.B}

\* the maps of the bundle page before they are sorted
InsertionMaps ==
  IF orders.isArray
  THEN BundleOrderLoop([s \in 1..MaxSize |-> <<>>], orders.list, explodeGummies, ById)
  ELSE [s \in 1..MaxSize |-> <<>>]

\* the pairs are in non-increasing order of the selected metric, equal ones
\* in the order of insertion of their keys
PairsRanked ==
  \A i \in 1..Len(pairs) : \A j \in 1..Len(pairs) :
    i < j =>
      /\ ~NumLess(MetricOf(pairs[i], sortBy), MetricOf(pairs[j], sortBy))
      /\ MetricOf(pairs[i], sortBy) = MetricOf(pairs[j], sortBy) =>
           PairInsertedAt(pairs[i]) < PairInsertedAt(pairs[j])

\* the bundles of size s are in non-increasing order of count, equal ones in
\* the order of insertion of their keys
BundlesRanked(s, list, map) ==
  \A i \in 1..Len(list) : \A j \in 1..Len(list) :
    i < j =>
      /\ list[i].count >= list[j].count
      /\ list[i].count = list[j].count =>
           MapIndex(map, list[i].idKey) < MapIndex(map, list[j].idKey)

(* C17  Ranking order: the pair list is in non-increasing order of the     *)
(* selected metric (support, supportPct, lift or confidence A->B), pairs    *)
(* of equal metric in the order in which their keys were first inserted;    *)
(* the bundle list of every size is in non-increasing count with the same   *)
(* stable tie-break.                                                        *)
RankingOrder ==
  IF page = "pairs" THEN PairsRanked
  ELSE \A s \in 1..MaxSize : BundlesRanked(s, bundlesBySize[s], InsertionMaps[s])

\* a list sorted by lift in which a later inserted pair is ranked before an
\* earlier one and two pairs of equal lift follow each other
RankingOrderWitness ==
  /\ page = "pairs"
  /\ sortBy = "lift"
  /\ \E i \in 1..Len(pairs) : \E j \in 1..Len(pairs) :
       /\ i < j
       /\ NumLess(pairs[j].lift, pairs[i].lift)
       /\ PairInsertedAt(pairs[j]) < PairInsertedAt(pairs[i])
  /\ \E i \in 1..Len(pairs) : \E j \in 1..Len(pairs) :
       /\ i < j
       /\ pairs[i].lift = pairs[j].lift

\* the pair has a label that contains the query, trimmed, whatever the case
PairMatchesQuery(p) ==
  \/ toLowerCase(trim(query)) = ""
  \/ Includes(labelFor(products, p.A), toLowerCase(trim(query)))
  \/ Includes(labelFor(products, p.B), toLowerCase(trim(query)))

\* the bundle has a label that contains the query, whatever the case
BundleMatchesQuery(b) ==
  query = "" \/ Includes(b.bundle, toLowerCase(query))

\* the first n entries of a list
FirstOf(list, n) == SubSeq(list, 1, Min2(n, Len(list)))

\* the first topN of the pairs that pass the minCount and the label filter,
\* in the order of the sort
TopMatchingPairs == FirstOf(SelectSeq(pairs, PairMatchesQuery), topN)

\* the keys of the pairs of a list of pairs or of exported rows
PairKeysOf(list) == [i \in 1..Len(list) |-> <<list[i].A, list[i].B>>]
RowKeysOf(rows) == [i \in 1..Len(rows) |-> <<rows[i].A_key, rows[i].B_key>>]

\* the displayed pairs and the exported rows are the first topN matching pairs
PairsTruncatedLast ==
  /\ PairsAboveMinCount
  /\ PairsRanked
  /\ displayedPairs = TopMatchingPairs
  /\ exported.done => RowKeysOf(exported.rows) = PairKeysOf(TopMatchingPairs)

\* the cards of every section are the first visiblePerSection matching bundles
BundlesTruncatedLast ==
  \A i \in 1..Len(sections) :
    sections[i].cards =
      FirstOf(SelectSeq(bundlesBySize[sections[i].size], BundleMatchesQuery),
              visiblePerSection)

(* C18  Truncation order: what is displayed is the first topN entries of   *)
(* the list that has passed the minCount filter, the label filter and the   *)
(* sort, so no matching entry is lost to a non-matching one in a top-N      *)
(* slot; for the displayed pairs, the displayed bundles (visiblePerSection) *)
(* and the exported rows.                                                   *)
TruncationLast ==
  IF page = "pairs" THEN PairsTruncatedLast ELSE BundlesTruncatedLast

\* the same without the exported rows
DisplayTruncationLast ==
  IF page = "pairs"
  THEN PairsAboveMinCount /\ PairsRanked /\ displayedPairs = TopMatchingPairs
  ELSE BundlesTruncatedLast

\* what the page computes on an empty dataset: no eligible order, no count,
\* no pair, no bundle of any size, nothing displayed
EmptyResults ==
  /\ totalEligibleOrders = 0
  /\ itemCounts = <<>>
  /\ pairCounts = <<>>
  /\ pairs = <<>>
  /\ displayedPairs = <<>>
  /\ alsoBought = <<>>
  /\ \A s \in 1..MaxSize : bundlesBySize[s] = <<>>
  /\ \A i \in 1..Len(sections) : sections[i].cards = <<>>

\* the page holds no order: nothing loaded, or an empty array
NoOrders == ~orders.isArray \/ orders.list = <<>>

(* C19  Malformed dataset degrades to empty: when the loaded dataset is    *)
(* not an array, or loading fails, the page computes what it computes on    *)
(* an empty dataset, totalEligibleOrders = 0, every per-size bundle list    *)
(* empty, the pair list empty, and it goes on doing so under every control. *)
MalformedDegrades ==
  /\ [](NoOrders => EmptyResults)
  /\ [][(LoadNotArray \/ LoadFail) => (NoOrders' /\ EmptyResults')]_vars

\* a page whose load failed, after a control was changed
MalformedDegradesWitness ==
  /\ ~loading
  /\ error
  /\ ~orders.isArray
  /\ EmptyResults
  /\ \/ page = "pairs" /\ minCount = 1
     \/ page # "pairs" /\ selectedSize = 1

----------------------------------------------------------------------------
(* Properties of the sync.                                                  *)

\* the record the sync holds for the order it stored last
Persisted == MapGet(existingMap, NumStr(rawOrder.id), NoOrder)

\* the pairs page gives the two records one verdict in every date range
SameVerdict(o, kept) ==
  \A f \in DayPool : \A t \in DayPool :
    isOrderEligible(kept, fromIsoOf(f), toIsoOf(t))
      = isOrderEligible(o, fromIsoOf(f), toIsoOf(t))

\* the lines of the record are those of the order, field by field
SameLines(o, kept) ==
  /\ Len(kept.line_items) = Len(o.line_items)
  /\ \A i \in 1..Len(o.line_items) : kept.line_items[i] = o.line_items[i]

(* C20  Ingestion preserves the fields the pages read: for every remote    *)
(* order o, the record the sync persists keeps the status, the amounts,     *)
(* the dates and the fields of each line item that the pages read, so that  *)
(* the eligibility verdict and the resolved items computed from the         *)
(* persisted record are those computed from o.                              *)
IngestionPreserves ==
  rawOrder.id # Absent =>
    /\ MapHas(existingMap, NumStr(rawOrder.id))
    /\ Persisted.status = rawOrder.status
    /\ Persisted.total = rawOrder.total
    /\ SameLines(rawOrder, Persisted)
    /\ extractItemsForOrder(Persisted) = extractItemsForOrder(rawOrder)
    /\ SameVerdict(rawOrder, Persisted)

\* the same without the verdict: what simplifyOrder does keep
IngestionKeepsItems ==
  rawOrder.id # Absent =>
    /\ MapHas(existingMap, NumStr(rawOrder.id))
    /\ Persisted.status = rawOrder.status
    /\ Persisted.total = rawOrder.total
    /\ SameLines(rawOrder, Persisted)
    /\ extractItemsForOrder(Persisted) = extractItemsForOrder(rawOrder)

----------------------------------------------------------------------------
(* Properties of the loader.                                                *)

\* a load that was not cancelled has ended with loading = false and with
\* orders an array or error set
LoaderEndsSettled ==
  ~cancelled /\ ~fetching => ~loading /\ (orders.isArray \/ error)

\* once cancelled, an answer that is read successfully updates nothing
CancelledSuccessInert ==
  [][cancelled /\ ~error' => UNCHANGED <<orders, error, loading>>]_vars

(* C30  Cancelled load is inert: once the page has unmounted while the     *)
(* fetch is in flight, the loader updates none of orders, error and         *)
(* loading, whether the fetch succeeds, answers with a status that is not   *)
(* ok, or throws; a load that is not cancelled ends with loading = false    *)
(* and with orders an array or error set.                                   *)
CancelledInert ==
  /\ [][cancelled => UNCHANGED <<orders, error, loading>>]_vars
  /\ [](LoaderEndsSettled)


----------------------------------------------------------------------------
(* C27  Counts never exceed the universe: totalEligibleOrders is the       *)
(* number of orders that pass the eligibility test gating the aggregation,  *)
(* every singleton, pair and bundle count is at most totalEligibleOrders,   *)
(* and the supportPct of every reported pair is at most 100.                *)
CountsWithinUniverse ==
  /\ totalEligibleOrders = EligibleCount
  /\ \A S \in Aggregated : S.count <= totalEligibleOrders
  /\ \A j \in 1..Len(pairs) : ~NumLess(Num(100), pairs[j].supportPct)

\* a bundle page on a dataset with an order of status processing, where an
\* itemset is in every eligible order and another one is not
CountsWithinUniverseWitness ==
  /\ page # "pairs"
  /\ \E i \in OrderIndexes : orders.list[i].status = "processing"
  /\ totalEligibleOrders = 2
  /\ \E S \in Aggregated : S.size = 2 /\ S.count = totalEligibleOrders
  /\ \E S \in Aggregated : S.count < totalEligibleOrders


----------------------------------------------------------------------------
(* The two bundle implementations side by side.                            *)

\* the items extractLineItems holds for an order before its dedupe, which
\* both implementations build alike
RawItems(o, explode) ==
  LET st == LineLoop([nonGummies |-> <<>>, gummiesFlavorsSet |-> <<>>,
                      sawAnyGummiesLine |-> FALSE], o.line_items, explode)
  IN  IF explode THEN Range(st.nonGummies) ELSE Range(ConsolidatedItems(st))

DatasetItems(explode) == UNION {RawItems(orders.list[i], explode) : i \in OrderIndexes}

\* display name and product id in one-to-one correspondence over the dataset
NameIdOneToOne(explode) ==
  \A a \in DatasetItems(explode) : \A b \in DatasetItems(explode) :
    (a.productId = b.productId) <=> (a.displayName = b.displayName)

\* every order has the status completed or processing
NoPaidStatus ==
  \A i \in OrderIndexes :
    toLowerCase(orders.list[i].status) \in {"completed", "processing"}

\* the product id that goes with a display name in the dataset
IdOfName(name, explode) ==
  (CHOOSE it \in DatasetItems(explode) : it.displayName = name).productId

\* the product ids of a record of out[s], whichever implementation keys it
ItemIdsOf(rec, byId, explode) ==
  IF byId THEN PartsOfBundle(rec.idKey)
  ELSE {IdOfName(name, explode) : name \in PartsOfBundle(rec.idKey)}

\* the variant tallies with each variant key as the set of its parts
TalliesOf(rec) ==
  {[parts |-> PartsOfBundle(rec.variants[i].k), n |-> rec.variants[i].v]
     : i \in 1..Len(rec.variants)}

\* the collection out[s] holds: itemsets by product id with their counts,
\* variant tallies and samples
CollectionOf(out, s, byId, explode) ==
  {[items |-> ItemIdsOf(out[s][i], byId, explode), count |-> out[s][i].count,
    tallies |-> TalliesOf(out[s][i]), sample |-> out[s][i].sample]
     : i \in 1..Len(out[s])}

----------------------------------------------------------------------------
(* Properties of the aggregation loop.                                     *)

RECURSIVE Binomial(_, _)
Binomial(n, k) ==
  IF k = 0 THEN 1 ELSE IF k > n THEN 0
  ELSE Binomial(n - 1, k - 1) + Binomial(n - 1, k)

\* the sorted items the loop enumerates for an order, none for a skipped order
SortedItemsOf(o) ==
  LET KeyOf(it) == DedupeKey(it, ById)
  IN  IF BundleStatusOk(o, ById)
      THEN SortBy(extractLineItems(o, explodeGummies, ById), KeyOf)
      ELSE <<>>

KeysOfComb(comb) == {DedupeKey(comb[i], ById) : i \in 1..Len(comb)}

SubsetsOfSize(S, k) == {T \in SUBSET S : Cardinality(T) = k}

\* combinations(items, k) lists every k-subset of the items once, C(n, k) in
\* all, each in the order of the sorted items
EnumeratesSubsets(items, k) ==
  LET combs == combinations(items, k)
  IN  /\ Len(combs) = Binomial(Len(items), k)
      /\ {KeysOfComb(combs[c]) : c \in 1..Len(combs)}
           = SubsetsOfSize(KeysOfComb(items), k)
      /\ \A c \in 1..Len(combs) :
           /\ Len(combs[c]) = k
           /\ \A i \in 1..k : \A j \in 1..k :
                i < j => StrLess(DedupeKey(combs[c][i], ById), DedupeKey(combs[c][j], ById))

\* the itemsets recorded in the Map of one size, each with its count
KeyCounts(m, k) == {<<PartsOfBundle(m[k][i].k), m[k][i].v.count>> : i \in 1..Len(m[k])}

\* the Map of size k after an order was visited: one visit more for every
\* k-subset of the order's items, the other records as they were
VisitedOnce(old, new, visited) ==
  new = {<<e[1], IF e[1] \in visited THEN e[2] + 1 ELSE e[2]>> : e \in old}
          \cup {<<T, 1>> : T \in visited \ {e[1] : e \in old}}

EnumerationBefore ==
  cursor < Len(orders.list) =>
    \A k \in 1..MaxSize : EnumeratesSubsets(SortedItemsOf(orders.list[cursor + 1]), k)

RecordsWithinSizes ==
  /\ DOMAIN maps = 1..MaxSize
  /\ \A k \in 1..MaxSize : \A e \in KeyCounts(maps, k) : Cardinality(e[1]) = k

EnumerationStep ==
  (cursor < Len(orders.list) /\ cursor' = cursor + 1) =>
    \A k \in 1..MaxSize :
      VisitedOnce(KeyCounts(maps, k), KeyCounts(maps', k),
                  SubsetsOfSize(KeysOfComb(SortedItemsOf(orders.list[cursor + 1])), k))

(* C21  Itemset enumeration: for an order with n resolved items and every  *)
(* size k in 1..7 the loop visits each k-subset of the sorted items once,   *)
(* C(n, k) combinations each in sorted item order, none for k > n; a visit  *)
(* adds one to the record of the subset in the Map of size k, and no Map    *)
(* holds a record of another size, so none of a size above 7.               *)
ItemsetEnumeration ==
  /\ [](EnumerationBefore /\ RecordsWithinSizes)
  /\ [][EnumerationStep]_vars

\* the order of eight items has been visited with exploded gummies: eight
\* records of size 7, seventy of size 4, although the eight items are a
\* combination of their own
ItemsetEnumerationWitness ==
  /\ cursor \in 1..Len(orders.list)
  /\ explodeGummies
  /\ orders.list[cursor].line_items = OrderEight.line_items
  /\ Len(SortedItemsOf(orders.list[cursor])) = 8
  /\ combinations(SortedItemsOf(orders.list[cursor]), 8) # <<>>
  /\ Len(maps[7]) = 8
  /\ Len(maps[4]) = 70


\* the orders the loop has processed
Processed == Min2(cursor, Len(orders.list))

\* the sample entries of the processed orders that contributed to the itemset
\* T, in dataset order
Contributors(T) ==
  LET Contributes(i) == /\ BundleStatusOk(orders.list[i], ById)
                        /\ T \subseteq ResolvedKeys(orders.list[i])
      hits == SelectSeq([i \in 1..Processed |-> i], Contributes)
  IN  [j \in 1..Len(hits) |->
         [id |-> orders.list[hits[j]].id, date |-> sampleDate(orders.list[hits[j]])]]

\* count and sample are those of the first contributing orders
FirstSeen(count, sample, first) ==
  /\ count = Len(first)
  /\ Len(sample) = Min2(count, SampleCap)
  /\ sample = SubSeq(first, 1, Min2(count, SampleCap))

SamplesFirstSeen ==
  /\ \A k \in 1..MaxSize : \A i \in 1..Len(maps[k]) :
       FirstSeen(maps[k][i].v.count, maps[k][i].v.sample,
                 Contributors(PartsOfBundle(maps[k][i].k)))
  /\ \A k \in 1..MaxSize : \A i \in 1..Len(bundlesBySize[k]) :
       FirstSeen(bundlesBySize[k][i].count, bundlesBySize[k][i].sample,
                 Contributors(PartsOfBundle(bundlesBySize[k][i].idKey)))

\* a record keeps its place in its Map and the sample it has
SamplesKept ==
  \A k \in 1..MaxSize : \A i \in 1..Len(maps[k]) :
    /\ i <= Len(maps'[k])
    /\ maps'[k][i].k = maps[k][i].k
    /\ SubSeq(maps'[k][i].v.sample, 1, Len(maps[k][i].v.sample)) = maps[k][i].v.sample

(* C22  Sample orders are bounded and first-seen: after any number of      *)
(* processed orders the sample of every record has length min(count, 6)     *)
(* and holds the first min(count, 6) orders, in dataset order, that         *)
(* contributed to the itemset; a step of the loop keeps the entries a       *)
(* sample has; the returned lists carry the same samples.                   *)
SampleFirstSeen ==
  /\ [](SamplesFirstSeen)
  /\ [][SamplesKept]_vars

\* a record of seven contributing orders with a sample of six, an order
\* skipped before the sixth of them, the seventh not in the sample
SampleFirstSeenWitness ==
  \E k \in 1..MaxSize : \E i \in 1..Len(maps[k]) :
    LET rec == maps[k][i].v
    IN  /\ rec.count = SampleCap + 1
        /\ Len(rec.sample) = SampleCap
        /\ rec.sample[SampleCap].id = SampleCap + 1
        /\ cursor = SampleCap + 2
        /\ orders.list[cursor].status = "processing"


\* the counts of a variants Map, and their sum
RECURSIVE SumOfTallies(_)
SumOfTallies(variants) ==
  IF variants = <<>> THEN 0 ELSE Head(variants).v + SumOfTallies(Tail(variants))

VariantsAddUp(count, variants) ==
  /\ SumOfTallies(variants) = count
  /\ \A i \in 1..Len(variants) : variants[i].v <= count

(* C26  Variant breakdown sums to count: in every state of the aggregation *)
(* and in the returned lists, the counts of the variants Map of every       *)
(* record add up to the count of the record, and none of them exceeds it.   *)
VariantsSumToCount ==
  /\ \A k \in 1..MaxSize : \A i \in 1..Len(maps[k]) :
       VariantsAddUp(maps[k][i].v.count, maps[k][i].v.variants)
  /\ \A k \in 1..MaxSize : \A i \in 1..Len(bundlesBySize[k]) :
       VariantsAddUp(bundlesBySize[k][i].count, bundlesBySize[k][i].variants)

\* a returned record of eight orders in two variants, one of them seven times
VariantsSumToCountWitness ==
  /\ cursor = Len(orders.list) + 1
  /\ \E k \in 1..MaxSize : \E i \in 1..Len(bundlesBySize[k]) :
       /\ bundlesBySize[k][i].count = 8
       /\ Len(bundlesBySize[k][i].variants) = 2
       /\ \E j \in 1..2 : bundlesBySize[k][i].variants[j].v = 7


----------------------------------------------------------------------------
\* the result lists a fresh computation over the current dataset with the
\* current parameters gives
FreshPairs ==
  IF page = "pairs"
  THEN PairsList(ComputePairs(orders, fromDate, toDate), minCount, sortBy)
  ELSE <<>>

FreshProducts ==
  IF page = "pairs" THEN ComputePairs(orders, fromDate, toDate).products ELSE <<>>

(* C23  Recompute from scratch: after any sequence of parameter changes    *)
(* (explodeGummies, date range, minCount, sort key) and reloads, the counts *)
(* with their variant tallies and samples, the total and the result lists  *)
(* are those of one fresh computation over the current dataset with the     *)
(* current parameters; so explodeGummies toggled on and off again gives the *)
(* counts there were before.                                                *)
RecomputedFromScratch ==
  /\ Memo = RenderedFrom(orders.list)
  /\ products = FreshProducts
  /\ pairs = FreshPairs
  /\ displayedPairs = displayedPairsOf(FreshPairs, FreshProducts, query, topN)

\* a bundle page showing exploded gummies, two flavors counted as two items,
\* where the lists differ from those of the consolidated mode
RecomputedFromScratchWitness ==
  /\ page # "pairs"
  /\ explodeGummies
  /\ Len(orders.list) = 2
  /\ Len(bundlesBySize[1]) = 4
  /\ Len(ComputeBundles(orders, FALSE, ById)[1]) = 3


----------------------------------------------------------------------------
(* Properties of the sync route.                                           *)

SavedIds == {ordersFile.list[i].id : i \in 1..Len(ordersFile.list)}

StoredIds == {existingMap[i].v.id : i \in 1..Len(existingMap)}

\* the ids of the first n orders of the listing after a cut-off
FirstListed(after, n) ==
  {Listing(after)[i].id : i \in 1..Min2(n, Len(Listing(after)))}

\* a run that answered ok: true has left every order the shop had at its
\* start in orders.json
CompleteWhenOk ==
  (run.pc = "idle" /\ response = "ok") => \A id \in 1..run.listed : id \in SavedIds

\* the orders a run has passed in its listing, skipped ones included, are
\* stored
NothingSkippedUnsaved ==
  run.pc = "fetch" =>
    FirstListed(run.afterIso, (run.page - 1) * PerPage + run.skipIndex) \subseteq StoredIds

(* C25  Sync resume loses no orders: across the runs of POST, crashed and  *)
(* resumed ones included, a run that ends with ok: true has every order     *)
(* the shop listed at its start (all are dated after the cut-off of the     *)
(* first run) in orders.json, and the position a run resumes at or moves    *)
(* to never passes an order that is not stored.                             *)
SyncLosesNoOrder == CompleteWhenOk /\ NothingSkippedUnsaved

\* the orders the progress file marks as processed: those of the pages before
\* lastPageFetched and the first lastIndexInPage of that page, in the listing
\* of the run that wrote the file
MarkedProcessed ==
  IF ~progressFile.exists THEN {}
  ELSE FirstListed(progressFile.after,
                   (progressFile.lastPageFetched - 1) * PerPage
                     + progressFile.lastIndexInPage)

ProgressWithinSaved == MarkedProcessed \subseteq SavedIds

OneRecordPerId ==
  \A i \in 1..Len(ordersFile.list) : \A j \in 1..Len(ordersFile.list) :
    ordersFile.list[i].id = ordersFile.list[j].id => i = j

\* the first call of POST keeps the progress behind the saved orders
FirstRunProgressWithinSaved == run.runs <= 1 => ProgressWithinSaved

(* C28  Sync progress never runs ahead of saved data: at every point of a  *)
(* run and after a crash anywhere, every order the progress file marks as   *)
(* processed is in orders.json, and orders.json has at most one record of   *)
(* an order id.                                                             *)
ProgressNeverAhead == ProgressWithinSaved /\ OneRecordPerId

\* while a run goes on the counter is at most MAX_RETRIES, and six failed
\* fetches in a row have ended it with ok: false
RetryBounded ==
  /\ Running => run.retryCount <= MaxRetries
  /\ run.failures <= MaxRetries + 1
  /\ run.failures = MaxRetries + 1 => run.pc = "idle" /\ response = "failed"

\* a run ends with ok: false by its sixth failed fetch in a row
FailedBySixth == response = "failed" => run.failures = MaxRetries + 1

\* a step that writes the progress of a page leaves the counter at 0
ResetAfterPage == progressFile' # progressFile => run'.retryCount = 0

\* ok: true is the answer to an empty page, and to nothing else
OkWhenEmpty ==
  /\ (response' = "ok" /\ response # "ok") =>
       run.pc = "fetch" /\ fetchOrdersPage(run.afterIso, run.page) = <<>>
  /\ (run.pc = "fetch" /\ fetchOrdersPage(run.afterIso, run.page) = <<>>
        /\ run' # run /\ run'.pc # "dead" /\ run'.failures = 0)
       => run'.pc = "idle" /\ response' = "ok"

\* a run that goes on ends
RunTerminates == Running ~> ~Running

(* C29  Sync retry is bounded: a page is fetched again after at most       *)
(* MAX_RETRIES failures in a row, the counter is 0 after each page whose    *)
(* progress is written, a run ends with ok: false by its sixth failure in a *)
(* row and with ok: true exactly when a fetched page is empty.              *)
RetryCounting ==
  /\ [](RetryBounded /\ FailedBySixth)
  /\ [][ResetAfterPage /\ OkWhenEmpty]_vars

====
